---------------------------- MODULE Spec2Model ----------------------------
(***************************************************************************)
(* NanoPy SDK: the ABI parameter codec, the selector / topic computation,  *)
(* the event decoder and the contract call layer of src/src/contract.ts.   *)
(*                                                                         *)
(* JavaScript strings are sequences of one-character tokens ("a", "0",     *)
(* ...; a character outside printable ASCII is the token "U+XXXX").        *)
(* BigInt values are sign and magnitude, the magnitude a big-endian        *)
(* sequence of hexadecimal digits without leading zeros, so the 256-bit    *)
(* arithmetic of the codec keeps its full width.                           *)
(***************************************************************************)
EXTENDS Integers, Sequences, FiniteSets, TLC

VARIABLES op, out, abi, rpcLog, signLog, outcome, wallets, keygen, libLog,
          token, client, socket

vars == <<op, out, abi, rpcLog, signLog, outcome, wallets, keygen, libLog,
          token, client, socket>>

(***************************************************************************)
(* Bounds of the model.                                                    *)
(***************************************************************************)
MaxTextLen == 2
MaxOps == 1

(***************************************************************************)
(* JavaScript strings.                                                     *)
(***************************************************************************)
\* A sequence given as a function, made a tuple once and for all.
Tup(f) == f \o <<>>

\* const x = e; ... x ...: the body F applied to e, which is evaluated once.
Bind(e, F(_)) == F(e)

Chars(s) == Tup([i \in 1..Len(s) |-> SubSeq(s, i, i)])

\* Code points 32..126 in order; the quote, the asterisk, the backslash and
\* the backtick are
\* written as U+ tokens.
AsciiTable ==
    Chars(" !") \o <<"U+0022">> \o Chars("#$%&'()") \o <<"U+002a">>
    \o Chars("+,-./0123456789:;<=>?@ABCDEFGHIJKLMNOPQRSTUVWXYZ[")
    \o <<"U+005c">> \o Chars("]^_") \o <<"U+0060">>
    \o Chars("abcdefghijklmnopqrstuvwxyz{|}~")

HexDigits == Chars("0123456789abcdef")

IsAscii(c) == \E i \in 1..Len(AsciiTable) : AsciiTable[i] = c

HexValOrNaN(c) ==
    IF \E i \in 1..16 : HexDigits[i] = c
    THEN (CHOOSE i \in 1..16 : HexDigits[i] = c) - 1
    ELSE IF c \in {"A", "B", "C", "D", "E", "F"}
         THEN CASE c = "A" -> 10 [] c = "B" -> 11 [] c = "C" -> 12
                [] c = "D" -> 13 [] c = "E" -> 14 [] c = "F" -> 15
         ELSE -1

IsHexChar(c) == HexValOrNaN(c) >= 0

HexChar(d) == HexDigits[d + 1]

Repeat(c, n) == IF n <= 0 THEN <<>> ELSE Tup([i \in 1..n |-> c])

\* Padding put after the string instead of before it.
padStartAtEnd(s, n, c) == s \o Repeat(c, n - Len(s))

\* String.prototype.padStart / padEnd with a one-character filler: a string
\* already at least n long is returned unchanged (never truncated).
padStart(s, n, c) == Repeat(c, n - Len(s)) \o s

padEnd(s, n, c) == s \o Repeat(c, n - Len(s))

\* String.prototype.slice(a, b) for a, b >= 0: both ends clamped to the length.
Min(a, b) == IF a < b THEN a ELSE b

Max(a, b) == IF a > b THEN a ELSE b

slice(s, a, b) ==
    SubSeq(s, Min(Max(a, 0), Len(s)) + 1, Min(Max(b, 0), Len(s)))

sliceFrom(s, a) == slice(s, a, Len(s))

\* String.prototype.slice(-n): the last n characters.
sliceLast(s, n) == slice(s, Len(s) - n, Len(s))

startsWith(s, p) == Len(s) >= Len(p) /\ SubSeq(s, 1, Len(p)) = p

\* String.prototype.replace(p, r) with a string pattern: the FIRST occurrence
\* of p, wherever it is, is replaced.
indexOf(s, p) ==
    LET hits == {i \in 0..(Len(s) - Len(p)) : SubSeq(s, i + 1, i + Len(p)) = p}
    IN  IF hits = {} THEN -1 ELSE CHOOSE i \in hits : \A j \in hits : i <= j

replace(s, p, r) ==
    LET i == indexOf(s, p)
    IN  IF i < 0 THEN s ELSE slice(s, 0, i) \o r \o sliceFrom(s, i + Len(p))

toLowerCaseChar(c) ==
    LET up == Chars("ABCDEFGHIJKLMNOPQRSTUVWXYZ")
        lo == Chars("abcdefghijklmnopqrstuvwxyz")
    IN  IF \E i \in 1..26 : up[i] = c
        THEN lo[CHOOSE i \in 1..26 : up[i] = c]
        ELSE c

toLowerCase(s) == Tup([i \in 1..Len(s) |-> toLowerCaseChar(s[i])])

\* The concatenation of a sequence of sequences.
RECURSIVE FlattenRange(_, _, _)
FlattenRange(ss, lo, hi) ==
    IF lo > hi THEN <<>>
    ELSE IF lo = hi THEN ss[lo]
    ELSE LET h == (lo + hi) \div 2
         IN  FlattenRange(ss, lo, h) \o FlattenRange(ss, h + 1, hi)

Flatten(ss) == FlattenRange(ss, 1, Len(ss))

\* Array.prototype.join
join(ss, sep) ==
    Flatten(Tup([i \in 1..Len(ss) |-> IF i = 1 THEN ss[i] ELSE sep \o ss[i]]))

(***************************************************************************)
(* JavaScript numbers that the codec reads out of hexadecimal text.  NaN   *)
(* is a value of its own; a number of more than seven significant hex      *)
(* digits is Huge (larger than any string length, which is all the codec   *)
(* uses such a number for).                                                *)
(***************************************************************************)
NaN == -1

Huge == 2000000000

StripZeros(ds) ==
    LET nz == {i \in 1..Len(ds) : ds[i] # 0}
    IN  IF nz = {} THEN <<>>
        ELSE SubSeq(ds, CHOOSE i \in nz : \A j \in nz : i <= j, Len(ds))

RECURSIVE DigitsToNatUpTo(_, _, _)
DigitsToNatUpTo(ds, base, i) ==
    IF i = 0 THEN 0 ELSE DigitsToNatUpTo(ds, base, i - 1) * base + ds[i]

DigitsToNat(ds, base) == DigitsToNatUpTo(ds, base, Len(ds))

\* The longest prefix of s made of hexadecimal digits, as digit values.
HexPrefix(s) ==
    LET stop == {i \in 1..Len(s) : ~IsHexChar(s[i])}
        n == IF stop = {} THEN Len(s) ELSE (CHOOSE i \in stop : \A j \in stop : i <= j) - 1
    IN  Tup([i \in 1..n |-> HexValOrNaN(s[i])])

\* parseInt(s, 16): an optional 0x, then the leading hex digits; NaN if none.
parseInt16(s) ==
    Bind(HexPrefix(IF startsWith(s, <<"0", "x">>) \/ startsWith(s, <<"0", "X">>)
                   THEN SubSeq(s, 3, Len(s)) ELSE s),
         LAMBDA ds : Bind(StripZeros(ds),
         LAMBDA sig : IF Len(ds) = 0 THEN NaN
                      ELSE IF Len(sig) > 7 THEN Huge
                      ELSE DigitsToNat(sig, 16)))

IsDecChar(c) == IsHexChar(c) /\ HexValOrNaN(c) <= 9 /\ c \notin {"A", "B", "C", "D", "E", "F"}

DecPrefix(s) ==
    LET stop == {i \in 1..Len(s) : ~IsDecChar(s[i])}
        n == IF stop = {} THEN Len(s) ELSE (CHOOSE i \in stop : \A j \in stop : i <= j) - 1
    IN  Tup([i \in 1..n |-> HexValOrNaN(s[i])])

\* parseInt(s): the leading decimal digits; NaN if there are none.
parseInt10(s) ==
    Bind(DecPrefix(s),
         LAMBDA ds : Bind(StripZeros(ds),
         LAMBDA sig : IF Len(ds) = 0 THEN NaN
                      ELSE IF Len(sig) > 9 THEN Huge
                      ELSE DigitsToNat(sig, 10)))

\* Number.prototype.toString(16) of a non-negative integer.
RECURSIVE NatToHexDigits(_)
NatToHexDigits(n) ==
    IF n < 16 THEN <<n>> ELSE NatToHexDigits(n \div 16) \o <<n % 16>>

numberToString16(n) ==
    LET ds == NatToHexDigits(n) IN Tup([i \in 1..Len(ds) |-> HexChar(ds[i])])

(***************************************************************************)
(* BigInt: [neg, mag], mag a big-endian sequence of hex digit values       *)
(* without leading zeros (zero is the empty magnitude).                    *)
(***************************************************************************)
Big(neg, mag) ==
    LET m == StripZeros(mag) IN [t |-> "big", neg |-> (neg /\ m # <<>>), mag |-> m]

BigNat(n) == Big(FALSE, IF n = 0 THEN <<>> ELSE NatToHexDigits(n))

BigNeg(x) == Big(~x.neg, x.mag)

MagCmpAt(a, b) ==
    LET diff == {i \in 1..Len(a) : a[i] # b[i]}
    IN  IF diff = {} THEN 0
        ELSE LET i == CHOOSE k \in diff : \A j \in diff : k <= j
             IN  IF a[i] < b[i] THEN -1 ELSE 1

\* -1, 0, 1 as a < b, a = b, a > b, for magnitudes without leading zeros.
MagCmp(a, b) ==
    IF Len(a) < Len(b) THEN -1
    ELSE IF Len(a) > Len(b) THEN 1
    ELSE MagCmpAt(a, b)

\* The carry into digit i of a + b (equal lengths n): some lower digit pair
\* overflows and every pair between it and i passes the carry on.
CarryInto(a, b, i) ==
    \E j \in (i + 1)..Len(a) :
        a[j] + b[j] >= 16 /\ \A k \in (i + 1)..(j - 1) : a[k] + b[k] = 15

AddDigits(a, b) ==
    <<IF CarryInto(a, b, 0) THEN 1 ELSE 0>> \o
    Tup([i \in 1..Len(a) |-> (a[i] + b[i] + (IF CarryInto(a, b, i) THEN 1 ELSE 0)) % 16])

MagAdd(a, b) ==
    StripZeros(AddDigits(Repeat(0, Len(b) - Len(a)) \o a, Repeat(0, Len(a) - Len(b)) \o b))

\* The borrow out of digit i of a - b (equal lengths, a >= b).
BorrowFrom(a, b, i) ==
    \E j \in (i + 1)..Len(a) :
        a[j] < b[j] /\ \A k \in (i + 1)..(j - 1) : a[k] = b[k]

SubDigits(a, b) ==
    Tup([i \in 1..Len(a) |-> (a[i] - b[i] - (IF BorrowFrom(a, b, i) THEN 1 ELSE 0) + 16) % 16])

\* a - b for magnitudes with a >= b.
MagSub(a, b) ==
    StripZeros(SubDigits(a, Repeat(0, Len(a) - Len(b)) \o b))



\* m * 10 + c for a digit c.
MagTimes10Plus(m, c) ==
    Bind(MagAdd(m, m),
         LAMBDA m2 : Bind(MagAdd(m2, m2),
         LAMBDA m4 : MagAdd(MagAdd(MagAdd(m4, m4), m2), IF c = 0 THEN <<>> ELSE <<c>>)))

\* The value of the first i digits of m, modulo 10 (16^e = 6 mod 10 for e >= 1).
RECURSIVE PrefixMod10(_, _)
PrefixMod10(m, i) ==
    IF i = 0 THEN 0 ELSE (PrefixMod10(m, i - 1) * 16 + m[i]) % 10

\* Quotient and remainder of m divided by 10.
MagDivMod10(m) ==
    [q |-> StripZeros(Tup([i \in 1..Len(m) |-> (PrefixMod10(m, i - 1) * 16 + m[i]) \div 10])),
     r |-> PrefixMod10(m, Len(m))]

BigAdd(x, y) ==
    IF x.neg = y.neg THEN Big(x.neg, MagAdd(x.mag, y.mag))
    ELSE IF MagCmp(x.mag, y.mag) >= 0 THEN Big(x.neg, MagSub(x.mag, y.mag))
    ELSE Big(y.neg, MagSub(y.mag, x.mag))

BigSub(x, y) == BigAdd(x, BigNeg(y))

\* -1, 0, 1 as x < y, x = y, x > y.
BigCmp(x, y) ==
    IF x.neg /\ ~y.neg THEN -1
    ELSE IF ~x.neg /\ y.neg THEN 1
    ELSE IF x.neg THEN MagCmp(y.mag, x.mag)
    ELSE MagCmp(x.mag, y.mag)

\* 1n << BigInt(k); a negative shift count shifts right, giving 0n.
BigPow2(k) ==
    IF k < 0 THEN Big(FALSE, <<>>)
    ELSE Big(FALSE, <<2 ^ (k % 4)>> \o Repeat(0, k \div 4))

\* BigInt.prototype.toString(16).
bigToString16(x) ==
    LET ds == IF x.mag = <<>> THEN <<"0">> ELSE Tup([i \in 1..Len(x.mag) |-> HexChar(x.mag[i])])
    IN  (IF x.neg THEN <<"-">> ELSE <<>>) \o ds

\* BigInt.prototype.toString(): decimal.
RECURSIVE MagToDec(_)
MagToDec(m) ==
    IF m = <<>> THEN <<>>
    ELSE CHOOSE r \in {MagToDec(d.q) \o <<HexChar(d.r)>> : d \in {MagDivMod10(m)}} : TRUE

bigToString(x) ==
    (IF x.neg THEN <<"-">> ELSE <<>>) \o (IF x.mag = <<>> THEN <<"0">> ELSE MagToDec(x.mag))

\* (The recursive result is bound by a set constructor so that it is computed
\* once before it is used.)
RECURSIVE DecToMagUpTo(_, _)
DecToMagUpTo(s, i) ==
    IF i = 0 THEN <<>>
    ELSE CHOOSE r \in {MagTimes10Plus(p, HexValOrNaN(s[i])) : p \in {DecToMagUpTo(s, i - 1)}} : TRUE

DecToMag(s) == DecToMagUpTo(s, Len(s))

Ok(v) == [ok |-> TRUE, val |-> v]

Throw(kind, msg) == [ok |-> FALSE, err |-> kind, msg |-> msg]

\* BigInt(string): "" is 0n; 0x / 0X then hex digits; decimal digits with an
\* optional sign; anything else is a SyntaxError.
stringToBigInt(s) ==
    IF Len(s) = 0 THEN Ok(Big(FALSE, <<>>))
    ELSE IF startsWith(s, <<"0", "x">>) \/ startsWith(s, <<"0", "X">>)
    THEN IF Len(s) > 2 /\ \A i \in 3..Len(s) : IsHexChar(s[i])
         THEN Ok(Big(FALSE, Tup([i \in 1..(Len(s) - 2) |-> HexValOrNaN(s[i + 2])])))
         ELSE Throw("SyntaxError", Chars("Cannot convert to BigInt"))
    ELSE Bind(IF s[1] \in {"-", "+"} THEN Tail(s) ELSE s,
              LAMBDA body :
                  IF Len(body) > 0 /\ \A i \in 1..Len(body) : IsDecChar(body[i])
                  THEN Ok(Big(s[1] = "-", DecToMag(body)))
                  ELSE Throw("SyntaxError", Chars("Cannot convert to BigInt")))

(***************************************************************************)
(* JavaScript values handed to the codec: strings, BigInt (a number is its *)
(* integer value), booleans, arrays and undefined.                         *)
(***************************************************************************)
Str(s) == [t |-> "str", s |-> s]

Bool(b) == [t |-> "bool", b |-> b]

Arr(a) == [t |-> "arr", a |-> a]

Undefined == [t |-> "undef"]

\* A JavaScript number (a non-negative integer here) and a Uint8Array.
Num(n) == [t |-> "num", n |-> n]

Bytes(b) == [t |-> "bytes", b |-> b]

\* String(value), as Array.prototype.join and BigInt(array) apply it.
RECURSIVE toJSString(_)
toJSString(v) ==
    CASE v.t = "str" -> v.s
      [] v.t = "big" -> bigToString(v)
      [] v.t = "bool" -> IF v.b THEN Chars("true") ELSE Chars("false")
      [] v.t = "arr" -> join(Tup([i \in 1..Len(v.a) |-> toJSString(v.a[i])]), <<",">>)
      [] v.t = "undef" -> Chars("undefined")

\* BigInt(value).
toBigInt(v) ==
    CASE v.t = "big" -> Ok(v)
      [] v.t = "bool" -> Ok(Big(FALSE, IF v.b THEN <<1>> ELSE <<>>))
      [] v.t \in {"str", "arr"} -> stringToBigInt(IF v.t = "str" THEN v.s ELSE toJSString(v))
      [] v.t = "undef" -> Throw("TypeError", Chars("Cannot convert undefined to a BigInt"))
      [] v.t = "num" -> Ok(Big(FALSE, IF v.n = 0 THEN <<>> ELSE NatToHexDigits(v.n)))
      [] v.t = "null" -> Throw("TypeError", Chars("Cannot convert null to a BigInt"))

\* Truthiness, as the conditional operator applies it.
truthy(v) ==
    CASE v.t = "bool" -> v.b
      [] v.t = "big" -> v.mag # <<>>
      [] v.t = "str" -> Len(v.s) > 0
      [] v.t = "arr" -> TRUE
      [] v.t = "undef" -> FALSE
      [] v.t = "num" -> v.n # 0
      [] v.t = "null" -> FALSE
      [] v.t = "bytes" -> TRUE

(***************************************************************************)
(* Bytes, hexadecimal text and UTF-8.                                      *)
(***************************************************************************)
RECURSIVE CatRange(_, _, _)
CatRange(ss, lo, hi) ==
    IF lo > hi THEN ""
    ELSE IF lo = hi THEN ss[lo]
    ELSE LET h == (lo + hi) \div 2
         IN  CatRange(ss, lo, h) \o CatRange(ss, h + 1, hi)

\* The characters of a string joined into one TLA+ string.
Cat(ss) == CatRange(ss, 1, Len(ss))

\* The code point of a character token, and the token of a code point.
codePointAt(c) ==
    IF IsAscii(c) THEN 31 + (CHOOSE i \in 1..Len(AsciiTable) : AsciiTable[i] = c)
    ELSE DigitsToNat(Tup([i \in 1..4 |-> HexValOrNaN(SubSeq(c, i + 2, i + 2))]), 16)

fromCodePoint(n) ==
    IF n >= 32 /\ n <= 126 THEN AsciiTable[n - 31]
    ELSE "U+" \o Cat(padStart(numberToString16(n), 4, "0"))

\* TextEncoder.encode of one code point (a lone surrogate is encoded as U+FFFD).
utf8Bytes(n) ==
    LET cp == IF n >= 55296 /\ n <= 57343 THEN 65533 ELSE n
    IN  IF cp < 128 THEN <<cp>>
        ELSE IF cp < 2048 THEN <<192 + (cp \div 64), 128 + (cp % 64)>>
        ELSE IF cp < 65536
        THEN <<224 + (cp \div 4096), 128 + ((cp \div 64) % 64), 128 + (cp % 64)>>
        ELSE <<240 + (cp \div 262144), 128 + ((cp \div 4096) % 64),
               128 + ((cp \div 64) % 64), 128 + (cp % 64)>>

textEncode(s) == Flatten(Tup([i \in 1..Len(s) |-> utf8Bytes(codePointAt(s[i]))]))

IsCont(bs, i) == i <= Len(bs) /\ bs[i] >= 128 /\ bs[i] <= 191

\* TextDecoder.decode (fatal: false), one step at byte i: the character read
\* and the position after it.  An ill-formed sequence becomes U+FFFD and
\* decoding resumes after its maximal well-formed part.
utf8Step(bs, i) ==
    LET b == bs[i]
        lo2 == IF b = 224 THEN 160 ELSE IF b = 240 THEN 144 ELSE 128
        hi2 == IF b = 237 THEN 159 ELSE IF b = 244 THEN 143 ELSE 191
        second == i + 1 <= Len(bs) /\ bs[i + 1] >= lo2 /\ bs[i + 1] <= hi2
        good(cp, n) == [s |-> <<fromCodePoint(cp)>>, next |-> i + n]
        bad(n) == [s |-> <<fromCodePoint(65533)>>, next |-> i + n]
    IN  IF b < 128 THEN good(b, 1)
        ELSE IF b >= 194 /\ b <= 223
        THEN IF second THEN good((b - 192) * 64 + (bs[i + 1] - 128), 2) ELSE bad(1)
        ELSE IF b >= 224 /\ b <= 239
        THEN IF second /\ IsCont(bs, i + 2)
             THEN good((b - 224) * 4096 + (bs[i + 1] - 128) * 64 + (bs[i + 2] - 128), 3)
             ELSE IF second THEN bad(2) ELSE bad(1)
        ELSE IF b >= 240 /\ b <= 244
        THEN IF second /\ IsCont(bs, i + 2) /\ IsCont(bs, i + 3)
             THEN good((b - 240) * 262144 + (bs[i + 1] - 128) * 4096
                       + (bs[i + 2] - 128) * 64 + (bs[i + 3] - 128), 4)
             ELSE IF second /\ IsCont(bs, i + 2) THEN bad(3)
             ELSE IF second THEN bad(2) ELSE bad(1)
        ELSE bad(1)

\* At most k steps of the decoder from byte i.
RECURSIVE utf8Take(_, _, _)
utf8Take(bs, i, k) ==
    IF i > Len(bs) \/ k = 0 THEN [s |-> <<>>, next |-> i]
    ELSE IF k = 1 THEN utf8Step(bs, i)
    ELSE CHOOSE r \in
            {CHOOSE q \in {[s |-> left.s \o right.s, next |-> right.next] :
                            right \in {utf8Take(bs, left.next, k - (k \div 2))}} : TRUE :
                left \in {utf8Take(bs, i, k \div 2)}} : TRUE

utf8Decode(bs, i) == utf8Take(bs, i, Len(bs)).s

\* new TextDecoder().decode(bytes): UTF-8, a leading byte order mark dropped.
textDecode(bs) ==
    utf8Decode(bs, IF Len(bs) >= 3 /\ SubSeq(bs, 1, 3) = <<239, 187, 191>> THEN 4 ELSE 1)

\* utils.bytesToHex
bytesToHex(bytes) ==
    <<"0", "x">> \o
    join(Tup([i \in 1..Len(bytes) |-> padStart(numberToString16(bytes[i]), 2, "0")]), <<>>)

\* utils.hexToBytes: floor(length / 2) bytes, each parseInt of two characters
\* (NaN is stored in a Uint8Array as 0).
hexToBytes(hex) ==
    Bind(IF startsWith(hex, <<"0", "x">>) THEN SubSeq(hex, 3, Len(hex)) ELSE hex,
         LAMBDA cleanHex :
             Tup([i \in 1..(Len(cleanHex) \div 2) |->
                     Max(parseInt16(SubSeq(cleanHex, 2 * i - 1, 2 * i)), 0)]))


(***************************************************************************)
(* Keccak-256 (the js-sha3 import): a 64-character lower-case hex digest   *)
(* of the UTF-8 bytes.  The digests of the two standard ERC20 signatures   *)
(* are the real ones; every other input gets a deterministic stand-in      *)
(* digest that depends on every byte of the input.                         *)
(***************************************************************************)
HashModulus == 16777213

\* a * b modulo HashModulus for a, b below it, b taken six bits at a time so
\* that no intermediate value leaves 32 bits.
MulMod(a, b) ==
    (((((((a * (b \div 262144)) % HashModulus) * 64 + a * ((b \div 4096) % 64)) % HashModulus)
          * 64 + a * ((b \div 64) % 64)) % HashModulus) * 64 + a * (b % 64)) % HashModulus

RECURSIVE Pow31(_)
Pow31(k) ==
    IF k = 0 THEN 1
    ELSE IF k % 2 = 1 THEN MulMod(Pow31(k - 1), 31)
    ELSE Bind(Pow31(k \div 2), LAMBDA h : MulMod(h, h))

\* The sum of (bs[i] + step) * 31^(hi - i) for i in lo..hi: short runs by
\* Horner's rule, longer ones by halves.
RECURSIVE Horner31(_, _, _, _)
Horner31(bs, lo, hi, step) ==
    IF lo > hi THEN 0
    ELSE (Horner31(bs, lo, hi - 1, step) * 31 + bs[hi] + step) % HashModulus

RECURSIVE Poly31(_, _, _, _)
Poly31(bs, lo, hi, step) ==
    IF hi - lo < 8 THEN Horner31(bs, lo, hi, step)
    ELSE Bind((lo + hi) \div 2,
              LAMBDA mid :
                  (MulMod(Poly31(bs, lo, mid, step), Pow31(hi - mid))
                      + Poly31(bs, mid + 1, hi, step)) % HashModulus)

\* h := (h * 31 + b + step) mod HashModulus over the first i bytes, from seed.
Fold31(bs, i, seed, step) ==
    (MulMod(seed, Pow31(i)) + Poly31(bs, 1, i, step)) % HashModulus

Digest31(bs) ==
    Bind(<<Fold31(bs, Len(bs), 7, 0), Fold31(bs, Len(bs), 11, 5)>>,
         LAMBDA h :
             SubSeq(join(Tup([k \in 1..11 |->
                         padStart(numberToString16((h[1] + (k - 1) * h[2]) % 16777213), 6, "0")]),
                         <<>>), 1, 64))

\* The input is evaluated in full before the folds run over it.
keccak256Bytes(bs) == IF Len(bs) = 0 THEN Digest31(<<>>) ELSE Digest31(bs)

keccak256(s) ==
    IF s = Chars("transfer(address,uint256)")
    THEN Chars("a9059cbb2ab09eb219583f4a59a5d0623ade346d962bcd4e46b11da047c9049b")
    ELSE IF s = Chars("Transfer(address,address,uint256)")
    THEN Chars("ddf252ad1be2c89b69c2b068fc378daa952ba7f163c4a11628f55a4df523b3ef")
    ELSE keccak256Bytes(textEncode(s))

(***************************************************************************)
(* Contract.encodeParameter (static)                                       *)
(***************************************************************************)
Hex0x == <<"0", "x">>

NotAFunction == Throw("TypeError", Chars("is not a function"))

\* value.startsWith('0x') ? value.slice(2) : value
strip0x(hex) == IF startsWith(hex, Hex0x) THEN sliceFrom(hex, 2) ELSE hex

\* Padding that adds a whole word to content already on a word boundary.
padToWordAlways(dataHex) == dataHex \o Repeat("0", 64 - (Len(dataHex) % 64))

\* while (dataHex.length % 64 !== 0) dataHex += '0': the zeros up to the next
\* multiple of 64.
padToWord(dataHex) == dataHex \o Repeat("0", (64 - (Len(dataHex) % 64)) % 64)

\* (hex.length / 2).toString(16): a half-integer prints with the fraction .8
halfLengthToString16(n) ==
    numberToString16(n \div 2) \o (IF n % 2 = 1 THEN <<".", "8">> ELSE <<>>)

encodeParameter(type, value) ==
    IF type = Chars("address")
    THEN IF value.t # "str" THEN NotAFunction
         ELSE Ok(Hex0x \o padStart(replace(toLowerCase(value.s), Hex0x, <<>>), 64, "0"))
    ELSE IF startsWith(type, Chars("uint"))
    THEN Bind(toBigInt(value),
              LAMBDA num : IF ~num.ok THEN num
                           ELSE Ok(Hex0x \o padStart(bigToString16(num.val), 64, "0")))
    ELSE IF startsWith(type, Chars("int"))
    THEN Bind(toBigInt(value),
              LAMBDA num : IF ~num.ok THEN num
                           ELSE Ok(Hex0x \o padStart(bigToString16(
                                       IF num.val.neg THEN BigAdd(BigPow2(256), num.val)
                                       ELSE num.val), 64, "0")))
    ELSE IF type = Chars("bool")
    THEN Ok(Hex0x \o padStart(IF truthy(value) THEN <<"1">> ELSE <<"0">>, 64, "0"))
    ELSE IF type = Chars("bytes32")
    THEN IF value.t # "str" THEN NotAFunction
         ELSE Ok(Hex0x \o padEnd(strip0x(value.s), 64, "0"))
    ELSE IF type = Chars("string")
    THEN Bind(IF value.t = "undef" THEN <<>> ELSE textEncode(toJSString(value)),
              LAMBDA bytes :
                  Ok(Hex0x \o padStart(numberToString16(Len(bytes)), 64, "0")
                           \o padToWord(sliceFrom(bytesToHex(bytes), 2))))
    ELSE IF type = Chars("bytes")
    THEN IF value.t # "str" THEN NotAFunction
         ELSE Bind(strip0x(value.s),
                   LAMBDA hex :
                       Ok(Hex0x \o padStart(halfLengthToString16(Len(hex)), 64, "0")
                                \o padToWord(hex)))
    ELSE Throw("Error", Chars("Unsupported type: ") \o type)

(***************************************************************************)
(* Contract.decodeParameter (static): the value and the new offset.        *)
(***************************************************************************)
Decoded(v, next) == [ok |-> TRUE, val |-> v, next |-> next]

\* JavaScript number arithmetic on offsets: NaN is absorbing, Huge stays Huge.
numTimes2(n) == IF n = NaN THEN NaN ELSE IF n >= Huge \div 2 THEN Huge ELSE n * 2

numPlus(a, b) ==
    IF a = NaN \/ b = NaN THEN NaN ELSE IF a >= Huge \/ b >= Huge THEN Huge ELSE a + b

\* String.prototype.slice with numeric ends: NaN is taken as 0.
numSlice(s, a, b) == slice(s, IF a = NaN THEN 0 ELSE a, IF b = NaN THEN 0 ELSE b)

decodeParameter(type, data, offset) ==
    Bind(slice(data, offset, offset + 64),
         LAMBDA chunk :
    IF type = Chars("address")
    THEN Decoded(Str(Hex0x \o sliceFrom(chunk, 24)), offset + 64)
    ELSE IF startsWith(type, Chars("uint"))
    THEN Bind(stringToBigInt(Hex0x \o chunk),
              LAMBDA num : IF ~num.ok THEN num ELSE Decoded(num.val, offset + 64))
    ELSE IF startsWith(type, Chars("int"))
    THEN Bind(stringToBigInt(Hex0x \o chunk),
              LAMBDA num :
         Bind(replace(type, Chars("int"), <<>>),
              LAMBDA width :
         Bind(parseInt10(IF width = <<>> THEN Chars("256") ELSE width),
              LAMBDA bits :
                  IF ~num.ok THEN num
                  ELSE IF bits = NaN
                  THEN Throw("RangeError", Chars("NaN cannot be converted to a BigInt"))
                  ELSE IF BigCmp(num.val, BigPow2(bits - 1)) >= 0
                  THEN Decoded(BigSub(num.val, BigPow2(bits)), offset + 64)
                  ELSE Decoded(num.val, offset + 64))))
    ELSE IF type = Chars("bool")
    THEN Decoded(Bool(sliceLast(chunk, 1) = <<"1">>), offset + 64)
    ELSE IF type = Chars("bytes32")
    THEN Decoded(Str(Hex0x \o chunk), offset + 64)
    ELSE IF type = Chars("string")
    THEN Bind(numTimes2(parseInt16(chunk)),
              LAMBDA dataOffset :
         Bind(parseInt16(numSlice(data, dataOffset, numPlus(dataOffset, 64))),
              LAMBDA length :
         Bind(numSlice(data, numPlus(dataOffset, 64),
                       numPlus(numPlus(dataOffset, 64), numTimes2(length))),
              LAMBDA strData :
                  Decoded(Str(textDecode(hexToBytes(strData))), offset + 64))))
    ELSE Throw("Error", Chars("Unsupported type: ") \o type))


(***************************************************************************)
(* Contract.encodeArguments / decodeArguments / encodeCall /               *)
(* functionSelector / decodeResult, and utils.functionSelector /           *)
(* eventTopic.  An ABI entry is [type, name, inputs, outputs]; a parameter *)
(* is [name, type, indexed].                                               *)
(***************************************************************************)
Param(name, type, indexed) == [name |-> Chars(name), type |-> Chars(type), indexed |-> indexed]

AbiItem(type, name, inputs, outputs) ==
    [type |-> type, name |-> Chars(name), inputs |-> inputs, outputs |-> outputs]

\* args[i]: undefined past the end of the array.
argAt(args, i) == IF i <= Len(args) THEN args[i] ELSE Undefined

\* The encodings joined with their 0x prefixes left in.
encodeArgumentsWithPrefix(inputs, args) ==
    Bind(Tup([i \in 1..Len(inputs) |-> encodeParameter(inputs[i].type, argAt(args, i))]),
         LAMBDA enc :
             IF \E i \in 1..Len(enc) : ~enc[i].ok
             THEN enc[CHOOSE i \in 1..Len(enc) : ~enc[i].ok /\ \A j \in 1..(i - 1) : enc[j].ok]
             ELSE Ok(Flatten(Tup([i \in 1..Len(enc) |-> enc[i].val]))))

\* The loop behind a check of the argument count.
encodeArgumentsChecked(inputs, args) ==
    IF Len(args) # Len(inputs) THEN Throw("Error", Chars("Invalid number of arguments"))
    ELSE Bind(Tup([i \in 1..Len(inputs) |-> encodeParameter(inputs[i].type, args[i])]),
              LAMBDA enc :
                  IF \E i \in 1..Len(enc) : ~enc[i].ok
                  THEN enc[CHOOSE i \in 1..Len(enc) : ~enc[i].ok /\ \A j \in 1..(i - 1) : enc[j].ok]
                  ELSE Ok(Flatten(Tup([i \in 1..Len(enc) |-> sliceFrom(enc[i].val, 2)]))))

\* for (i = 0; i < inputs.length; i++) result += encodeParameter(...).slice(2):
\* the first parameter that throws ends the loop with its error.
encodeArguments(inputs, args) ==
    Bind(Tup([i \in 1..Len(inputs) |-> encodeParameter(inputs[i].type, argAt(args, i))]),
         LAMBDA enc :
             IF \E i \in 1..Len(enc) : ~enc[i].ok
             THEN enc[CHOOSE i \in 1..Len(enc) : ~enc[i].ok /\ \A j \in 1..(i - 1) : enc[j].ok]
             ELSE Ok(Flatten(Tup([i \in 1..Len(enc) |-> sliceFrom(enc[i].val, 2)]))))

\* The loop of decodeArguments from output i on, the cursor at offset.
RECURSIVE decodeFrom(_, _, _, _)
decodeFrom(outputs, cleanData, i, offset) ==
    IF i > Len(outputs) THEN Ok(<<>>)
    ELSE CHOOSE r \in
            {IF ~d.ok THEN d
             ELSE CHOOSE q \in
                    {IF rest.ok THEN Ok(<<d.val>> \o rest.val) ELSE rest :
                        rest \in {decodeFrom(outputs, cleanData, i + 1, d.next)}} : TRUE :
                d \in {decodeParameter(outputs[i].type, cleanData, offset)}} : TRUE

decodeArguments(outputs, data) ==
    decodeFrom(outputs, IF startsWith(data, Hex0x) THEN sliceFrom(data, 2) ELSE data, 1, 0)

\* The signature with a space after each comma.
signatureSpaced(name, inputs) ==
    name \o <<"(">> \o join(Tup([i \in 1..Len(inputs) |-> inputs[i].type]), <<",", " ">>) \o <<")">>

\* `${abiItem.name}(${inputs.map(i => i.type).join(',')})`
signatureOf(name, inputs) ==
    name \o <<"(">> \o join(Tup([i \in 1..Len(inputs) |-> inputs[i].type]), <<",">>) \o <<")">>

\* Contract.functionSelector
functionSelector(abiItem) ==
    Hex0x \o slice(keccak256(signatureOf(abiItem.name, abiItem.inputs)), 0, 8)

encodeCall(abiItem, args) ==
    Bind(functionSelector(abiItem),
         LAMBDA selector :
    Bind(encodeArguments(abiItem.inputs, args),
         LAMBDA encodedArgs :
             IF ~encodedArgs.ok THEN encodedArgs ELSE Ok(selector \o encodedArgs.val)))

Null == [t |-> "null"]

decodeResult(abiItem, data) ==
    IF Len(abiItem.outputs) = 0 THEN Ok(Null)
    ELSE Bind(decodeArguments(abiItem.outputs, data),
              LAMBDA decoded :
                  IF ~decoded.ok THEN decoded
                  ELSE IF Len(abiItem.outputs) = 1 THEN Ok(decoded.val[1])
                  ELSE Ok(Arr(decoded.val)))

\* utils.functionSelector(signature) and utils.eventTopic(signature)
utils_functionSelector(signature) == Hex0x \o slice(keccak256(signature), 0, 8)

utils_eventTopic(signature) == Hex0x \o keccak256(signature)

(***************************************************************************)
(* EventDecoder.  A log is [topics, data]; args maps each decoded name to  *)
(* its value (a later assignment to the same name replaces an earlier).    *)
(***************************************************************************)
\* EventDecoder.constructor: this.topic
eventDecoderTopic(abiItem) ==
    Hex0x \o keccak256(signatureOf(abiItem.name, abiItem.inputs))

\* Topics read from position 0, the signature hash included.
topicOfFromZero(log, k) == log.topics[k]

\* log.topics[topicIndex] of the k-th indexed input: topicIndex starts at 1.
topicOf(log, k) == log.topics[k + 1]

\* The k-th (from 1) smallest element of a set of positions.
kth(S, k) == CHOOSE i \in S : Cardinality({j \in S : j <= i}) = k

filterInputs(inputs, keep) ==
    LET S == {i \in 1..Len(inputs) : inputs[i].indexed = keep}
    IN  Tup([k \in 1..Cardinality(S) |-> inputs[kth(S, k)]])

eventDecode(abiItem, log) ==
    Bind(filterInputs(abiItem.inputs, TRUE),
         LAMBDA indexedInputs :
    Bind(filterInputs(abiItem.inputs, FALSE),
         LAMBDA nonIndexedInputs :
    \* topicIndex runs from 1: indexed input k takes topics[k] while one is left
    Bind(Tup([k \in 1..Min(Len(indexedInputs), Len(log.topics) - 1) |->
                 decodeParameter(indexedInputs[k].type, sliceFrom(topicOf(log, k), 2), 0)]),
         LAMBDA fromTopic :
    Bind(IF \E k \in 1..Len(fromTopic) : ~fromTopic[k].ok
         THEN fromTopic[CHOOSE k \in 1..Len(fromTopic) :
                           ~fromTopic[k].ok /\ \A j \in 1..(k - 1) : fromTopic[j].ok]
         ELSE decodeArguments(nonIndexedInputs, log.data),
         LAMBDA decoded :
             IF ~decoded.ok THEN decoded
             ELSE Ok([event |-> abiItem.name,
                      args |-> [n \in {indexedInputs[k].name : k \in 1..Len(fromTopic)}
                                      \cup {nonIndexedInputs[j].name :
                                               j \in 1..Len(nonIndexedInputs)} |->
                                   IF \E j \in 1..Len(nonIndexedInputs) :
                                          nonIndexedInputs[j].name = n
                                   THEN decoded.val[CHOOSE j \in 1..Len(nonIndexedInputs) :
                                           /\ nonIndexedInputs[j].name = n
                                           /\ \A i \in (j + 1)..Len(nonIndexedInputs) :
                                                 nonIndexedInputs[i].name # n]
                                   ELSE fromTopic[CHOOSE k \in 1..Len(fromTopic) :
                                           /\ indexedInputs[k].name = n
                                           /\ \A i \in (k + 1)..Len(fromTopic) :
                                                 indexedInputs[i].name # n].val],
                      log |-> log])))))


(***************************************************************************)
(* Inputs of the codec's operations.                                       *)
(***************************************************************************)
BigOf(n) == IF n < 0 THEN BigNeg(BigNat(-n)) ELSE BigNat(n)

SupportedTypes ==
    {Chars(t) : t \in {"address", "uint256", "uint8", "uint", "int256", "int16", "int8",
                       "int", "bool", "bytes32", "string", "bytes"}}

OtherTypes ==
    {Chars(t) : t \in {"uint256[]", "int8[]", "address[]", "string[]", "tuple", "bytes4"}}

AddrLower == Chars("0xd8da6bf26964af9d7eed9e03e53415d37aa96045")

AddrChecksum == Chars("0xd8dA6BF26964aF9D7eEd9e03E53415D37aA96045")

AddrZero == Hex0x \o Repeat("0", 40)

Addresses == {Str(AddrLower), Str(AddrChecksum), Str(AddrZero)}

Integers256 ==
    {BigOf(n) : n \in {0, 1, 127, 128, 255, 256, 32767, -1, -128, -129, -32768}}
    \cup {BigSub(BigPow2(255), BigNat(1)), BigNeg(BigPow2(255)), BigPow2(255),
          BigSub(BigPow2(256), BigNat(1)), BigPow2(256)}

Numerals == {Str(Chars("1000")), Str(Chars("0x10")), Str(Chars("ten"))}

Hash32 == Hex0x \o keccak256(Chars("Transfer(address,address,uint256)"))

Bytes32Values == {Str(Hash32), Str(Hex0x \o Repeat("A", 64)), Str(Chars("0x1234"))}

Alphabet == {"a", "U+00e9", "U+20ac"}

ShortTexts == UNION {{Tup(f) : f \in [1..n -> Alphabet]} : n \in 0..MaxTextLen}

Texts == ShortTexts \cup {Repeat("a", n) : n \in {31, 32, 33}}

ByteStrings ==
    {Hex0x, Chars("0x00"), Chars("0xabcd"), Chars("0xabc"), Hash32, Hash32 \o Chars("ff")}

ValuesFor(type) ==
    IF type = Chars("address") THEN Addresses \cup {BigOf(1)}
    ELSE IF type \in SupportedTypes /\ (startsWith(type, Chars("uint")) \/ startsWith(type, Chars("int")))
    THEN Integers256 \cup Numerals \cup {Undefined}
    ELSE IF type = Chars("bool") THEN {Bool(TRUE), Bool(FALSE), BigOf(0), Str(Chars("false"))}
    ELSE IF type = Chars("bytes32") THEN Bytes32Values
    ELSE IF type = Chars("string") THEN {Str(t) : t \in Texts}
    ELSE IF type = Chars("bytes") THEN {Str(b) : b \in ByteStrings}
    ELSE {Arr(<<BigOf(5)>>), Arr(<<BigOf(5), BigOf(6)>>), Arr(<<>>), Str(AddrLower), BigOf(1)}

Word(x) == padStart(bigToString16(x), 64, "0")

Words ==
    {Word(BigOf(0)), Word(BigOf(1)), Word(BigOf(255)), Word(BigOf(32)),
     Word(BigSub(BigPow2(256), BigNat(1))), Word(BigPow2(255)),
     Word(BigSub(BigPow2(256), BigNat(128))), Repeat("0", 24) \o sliceFrom(AddrLower, 2)}

\* The ABI layout of one text after h head words: length word, padded content.
DynTail(text) ==
    LET hex == sliceFrom(bytesToHex(textEncode(text)), 2)
    IN  Word(BigOf(Len(hex) \div 2)) \o hex \o Repeat("0", (64 - (Len(hex) % 64)) % 64)

DataBlobs ==
    {<<>>} \cup Words
    \cup {Word(BigOf(32)) \o tl : tl \in {DynTail(t) : t \in Texts}}
    \cup {w \o Word(BigOf(64)) \o DynTail(<<"a", "U+20ac">>) : w \in Words}


FnTransfer ==
    AbiItem("function", "transfer",
            <<Param("to", "address", FALSE), Param("amount", "uint256", FALSE)>>,
            <<Param("", "bool", FALSE)>>)

FnBalanceOf ==
    AbiItem("function", "balanceOf", <<Param("owner", "address", FALSE)>>,
            <<Param("", "uint256", FALSE)>>)

FnName == AbiItem("function", "name", <<>>, <<Param("", "string", FALSE)>>)

FnConfigure ==
    AbiItem("function", "configure",
            <<Param("enabled", "bool", FALSE), Param("delta", "int8", FALSE),
              Param("tag", "bytes32", FALSE)>>,
            <<>>)

FnStore ==
    AbiItem("function", "store",
            <<Param("note", "string", FALSE), Param("id", "uint256", FALSE)>>,
            <<Param("", "uint256", FALSE), Param("", "bool", FALSE)>>)

Functions == {FnTransfer, FnBalanceOf, FnName, FnConfigure, FnStore}

EvTransfer ==
    AbiItem("event", "Transfer",
            <<Param("from", "address", TRUE), Param("to", "address", TRUE),
              Param("value", "uint256", FALSE)>>,
            <<>>)

EvTransfer721 ==
    AbiItem("event", "Transfer",
            <<Param("from", "address", TRUE), Param("to", "address", TRUE),
              Param("tokenId", "uint256", TRUE)>>,
            <<>>)

EvUpdate ==
    AbiItem("event", "Update",
            <<Param("amount", "uint256", FALSE), Param("who", "address", TRUE),
              Param("ok", "bool", FALSE), Param("delta", "int256", TRUE)>>,
            <<>>)

Events == {EvTransfer, EvTransfer721, EvUpdate}

ArgSamples(type) ==
    IF type = Chars("address") THEN {Str(AddrLower), Str(AddrChecksum)}
    ELSE IF type = Chars("uint256") THEN {BigOf(0), BigSub(BigPow2(256), BigNat(1))}
    ELSE IF type = Chars("int8") THEN {BigOf(-1), BigOf(127)}
    ELSE IF type = Chars("bool") THEN {Bool(TRUE), Bool(FALSE)}
    ELSE IF type = Chars("bytes32") THEN {Str(Hash32)}
    ELSE IF type = Chars("bytes") THEN {Str(Chars("0xabcd"))}
    ELSE {Str(<<"a", "U+20ac">>), Str(<<>>)}

AllSamples == UNION {ArgSamples(t) : t \in SupportedTypes}

\* One argument per declared input, and the same lists one short and one long.
ArgLists(inputs) ==
    LET n == Len(inputs)
        exact == {Tup(a) : a \in {f \in [1..n -> AllSamples] :
                                      \A k \in 1..n : f[k] \in ArgSamples(inputs[k].type)}}
    IN  exact \cup {SubSeq(a, 1, n - 1) : a \in {e \in exact : n > 0}}
              \cup {a \o <<BigOf(7)>> : a \in exact}

\* Declared parameter lists of no, one and two parameters.
ArityTypes == {"address", "uint256", "int8", "bool", "bytes32", "string", "bytes"}

InputLists ==
    {<<>>} \cup {<<Param("a", t, FALSE)>> : t \in ArityTypes}
           \cup {<<Param("a", t, FALSE), Param("b", u, FALSE)>> : t \in ArityTypes, u \in ArityTypes}

TopicWords == {Hex0x \o Repeat("0", 24) \o sliceFrom(AddrLower, 2), Hex0x \o Repeat("f", 64)}

TopicLists ==
    UNION {{<<Hash32>> \o Tup(f) : f \in [1..n -> TopicWords]} : n \in 0..3}

LogData ==
    {Hex0x, Hex0x \o Word(BigOf(1000)), Hex0x \o Word(BigOf(1000)) \o Word(BigOf(1)),
     Hex0x \o Word(BigSub(BigPow2(256), BigNat(1))) \o Word(BigOf(0))}

Logs == {[topics |-> ts, data |-> d] : ts \in TopicLists, d \in LogData}

Signatures ==
    {Chars(t) : t \in {"transfer(address,uint256)", "Transfer(address,address,uint256)",
                       "balanceOf(address)", "name()", "transfer(address, uint256)",
                       "transfer(address to,uint256 amount)"}}


(***************************************************************************)
(* The codec as a state machine: op is the operation applied and its       *)
(* inputs, out what it returned or threw.                                  *)
(***************************************************************************)
\* No wallet object, no key generation under way, no library call made.
NoWallet == [privateKey |-> <<>>, publicKey |-> <<>>, address |-> <<>>]

KeygenIdle == [pc |-> "idle"]

WalletIdle == UNCHANGED <<wallets, keygen, libLog>>

\* No token object, no NanoPy client and no WSClient.
NoToken == [kind |-> "none"]

NoClient == [kind |-> "none"]

NoSocket == [kind |-> "none"]

NoClients ==
    /\ token = NoToken
    /\ client = NoClient
    /\ socket = NoSocket

ClientsIdle == UNCHANGED <<token, client, socket>>

NoWallets ==
    /\ wallets = <<NoWallet, NoWallet>>
    /\ keygen = KeygenIdle
    /\ libLog = <<>>

ContractIdle == UNCHANGED <<abi, rpcLog, signLog, outcome>> /\ WalletIdle /\ ClientsIdle

InitCodec ==
    /\ op = [fn |-> "none"]
    /\ out = Ok(Null)
    /\ abi = <<>>
    /\ rpcLog = <<>>
    /\ signLog = <<>>
    /\ outcome = Ok(Null)
    /\ NoWallets
    /\ NoClients

EncodeParameterOp ==
    /\ op.fn = "none"
    /\ \E type \in SupportedTypes \cup OtherTypes : \E value \in ValuesFor(type) :
          /\ op' = [fn |-> "encodeParameter", type |-> type, value |-> value]
          /\ out' = encodeParameter(type, value)
    /\ ContractIdle

\* decodeParameter applied to what encodeParameter returned: as returned (raw),
\* or without the 0x prefix, the way decodeArguments and decode pass data on.
RoundTripOp ==
    /\ op.fn = "encodeParameter"
    /\ out.ok
    /\ \E raw \in BOOLEAN :
          /\ op' = [fn |-> "roundTrip", type |-> op.type, value |-> op.value,
                    encoded |-> out.val, raw |-> raw]
          /\ out' = decodeParameter(op.type, IF raw THEN out.val ELSE sliceFrom(out.val, 2), 0)
    /\ ContractIdle

DecodeParameterOp ==
    /\ op.fn = "none"
    /\ \E type \in SupportedTypes \cup OtherTypes : \E data \in DataBlobs : \E offset \in {0, 64} :
          /\ op' = [fn |-> "decodeParameter", type |-> type, data |-> data, offset |-> offset]
          /\ out' = decodeParameter(type, data, offset)
    /\ ContractIdle

EncodeCallOp ==
    /\ op.fn = "none"
    /\ \E abiItem \in Functions : \E args \in ArgLists(abiItem.inputs) :
          /\ op' = [fn |-> "encodeCall", abiItem |-> abiItem, args |-> args]
          /\ out' = encodeCall(abiItem, args)
    /\ ContractIdle

\* ContractMethod.encodeABI of the method object built for abiItem.
EncodeABIOp ==
    /\ op.fn = "none"
    /\ \E abiItem \in Functions : \E args \in ArgLists(abiItem.inputs) :
          /\ op' = [fn |-> "encodeABI", abiItem |-> abiItem, args |-> args]
          /\ out' = encodeCall(abiItem, args)
    /\ ContractIdle

\* Contract.encodeArguments called directly: as many arguments as declared,
\* one fewer, none, or one more.
EncodeArgumentsOp ==
    /\ op.fn = "none"
    /\ \E inputs \in InputLists : \E args \in ArgLists(inputs) \cup {<<>>} :
          /\ op' = [fn |-> "encodeArguments", inputs |-> inputs, args |-> args]
          /\ out' = encodeArguments(inputs, args)
    /\ ContractIdle

\* Return data in the ABI layout: head words, then the tail of the dynamic output.
DecodeArgumentsOp ==
    /\ op.fn = "none"
    /\ \E dyn \in {"string", "bytes"} : \E text \in Texts :
       \E word \in {Word(BigOf(1)), Word(BigOf(255))} :
       \E shape \in {"dyn", "dyn,static", "static,dyn"} :
          LET d == Param("", dyn, FALSE)
              u == Param("", "uint256", FALSE)
              outputs == CASE shape = "dyn" -> <<d>>
                           [] shape = "dyn,static" -> <<d, u>>
                           [] shape = "static,dyn" -> <<u, d>>
              data == CASE shape = "dyn" -> Word(BigOf(32)) \o DynTail(text)
                        [] shape = "dyn,static" -> Word(BigOf(64)) \o word \o DynTail(text)
                        [] shape = "static,dyn" -> word \o Word(BigOf(64)) \o DynTail(text)
          IN  /\ op' = [fn |-> "decodeArguments", outputs |-> outputs, data |-> Hex0x \o data,
                        shape |-> shape, text |-> text, word |-> word]
              /\ out' = decodeArguments(outputs, Hex0x \o data)
    /\ ContractIdle

EventDecodeOp ==
    /\ op.fn = "none"
    /\ \E abiItem \in Events : \E log \in Logs :
          /\ op' = [fn |-> "decode", abiItem |-> abiItem, log |-> log]
          /\ out' = eventDecode(abiItem, log)
    /\ ContractIdle

FunctionSelectorOp ==
    /\ op.fn = "none"
    /\ \E abiItem \in Functions \cup Events :
          /\ op' = [fn |-> "functionSelector", abiItem |-> abiItem]
          /\ out' = Ok(functionSelector(abiItem))
    /\ ContractIdle

EventTopicOp ==
    /\ op.fn = "none"
    /\ \E abiItem \in Functions \cup Events :
          /\ op' = [fn |-> "EventDecoder", abiItem |-> abiItem]
          /\ out' = Ok(eventDecoderTopic(abiItem))
    /\ ContractIdle

UtilsSelectorOp ==
    /\ op.fn = "none"
    /\ \E signature \in Signatures :
          /\ op' = [fn |-> "utils.functionSelector", signature |-> signature]
          /\ out' = Ok(utils_functionSelector(signature))
    /\ ContractIdle

UtilsEventTopicOp ==
    /\ op.fn = "none"
    /\ \E signature \in Signatures :
          /\ op' = [fn |-> "utils.eventTopic", signature |-> signature]
          /\ out' = Ok(utils_eventTopic(signature))
    /\ ContractIdle

NextCodec ==
    \/ EncodeParameterOp
    \/ RoundTripOp
    \/ DecodeParameterOp
    \/ EncodeCallOp
    \/ EncodeABIOp
    \/ EncodeArgumentsOp
    \/ DecodeArgumentsOp
    \/ EventDecodeOp
    \/ FunctionSelectorOp
    \/ EventTopicOp
    \/ UtilsSelectorOp
    \/ UtilsEventTopicOp

SpecCodec == InitCodec /\ [][NextCodec]_vars

(***************************************************************************)
(* The Contract object over a client: abi is the ABI it was built with,    *)
(* rpcLog the JSON-RPC requests issued so far, signLog the transactions    *)
(* handed to the wallet for signing, outcome what the last operation       *)
(* returned or threw.  Operations are called with their default options.   *)
(***************************************************************************)
ContractAddress == Hex0x \o Repeat("c", 40)

WalletAddress == AddrChecksum

Effects(requests, signed, result) ==
    [requests |-> requests, signed |-> signed, result |-> result]

Request(method, arg) == [method |-> method, arg |-> arg]

\* A lookup by name alone, whatever the entry's type.
abiFindByName(abiItems, type, name) ==
    IF \E i \in 1..Len(abiItems) : abiItems[i].name = name
    THEN CHOOSE i \in 1..Len(abiItems) :
            /\ abiItems[i].name = name
            /\ \A j \in 1..(i - 1) : abiItems[j].name # name
    ELSE 0

\* this.abi.find(i => i.type === type && i.name === name): the position of the
\* first match, 0 for undefined.
abiFind(abiItems, type, name) ==
    IF \E i \in 1..Len(abiItems) : abiItems[i].type = type /\ abiItems[i].name = name
    THEN CHOOSE i \in 1..Len(abiItems) :
            /\ abiItems[i].type = type /\ abiItems[i].name = name
            /\ \A j \in 1..(i - 1) : ~(abiItems[j].type = type /\ abiItems[j].name = name)
    ELSE 0

\* The constructor's loop: this.methods[name] / this.events[name] is built from
\* the LAST entry of that type and (non-empty) name; 0 when there is none.
registryEntry(abiItems, type, name) ==
    IF name # <<>> /\ \E i \in 1..Len(abiItems) : abiItems[i].type = type /\ abiItems[i].name = name
    THEN CHOOSE i \in 1..Len(abiItems) :
            /\ abiItems[i].type = type /\ abiItems[i].name = name
            /\ \A j \in (i + 1)..Len(abiItems) : ~(abiItems[j].type = type /\ abiItems[j].name = name)
    ELSE 0

notFound(what, name) ==
    Throw("Error", Chars(what) \o <<" ">> \o name \o Chars(" not found in ABI"))

\* Contract.call
contractCall(abiItems, method, args, reply) ==
    Bind(abiFind(abiItems, "function", method),
         LAMBDA i :
    IF i = 0 THEN Effects(<<>>, <<>>, notFound("Method", method))
    ELSE Bind(encodeCall(abiItems[i], args),
              LAMBDA data :
                  IF ~data.ok THEN Effects(<<>>, <<>>, data)
                  ELSE Effects(<<Request("eth_call", [to |-> ContractAddress, data |-> data.val])>>,
                               <<>>,
                               IF ~reply.ok THEN reply ELSE decodeResult(abiItems[i], reply.val))))

\* NanoPy._getGasPrice on a client without a configured gas price.
getGasPrice(node) == IF node.gasPrice.ok THEN node.gasPrice.val ELSE Chars("0x3B9ACA00")

\* NanoPy.sendTransaction: nonce, chain id, gas price, sign, send, wait.
clientSendTransaction(tx, node) ==
    Bind(<<Request("eth_getTransactionCount", WalletAddress)>>,
         LAMBDA r1 :
    IF ~node.nonce.ok THEN Effects(r1, <<>>, node.nonce)
    ELSE Bind(<<[tx EXCEPT !.nonce = parseInt16(node.nonce.val),
                           !.gasPrice = IF tx.gasPrice = Undefined THEN Str(getGasPrice(node))
                                        ELSE tx.gasPrice]>>,
              LAMBDA signed :
         Bind(r1 \o (IF tx.gasPrice = Undefined THEN <<Request("eth_gasPrice", <<>>)>> ELSE <<>>)
                 \o <<Request("eth_sendRawTransaction", signed[1])>>,
              LAMBDA r3 :
                  IF ~node.send.ok THEN Effects(r3, signed, node.send)
                  ELSE Effects(r3 \o <<Request("eth_getTransactionReceipt", node.send.val)>>,
                               signed,
                               IF node.receipt.ok THEN node.receipt
                               ELSE Throw("Error", Chars("Transaction not confirmed"))))))

\* Contract.send
contractSend(abiItems, method, args, node) ==
    Bind(abiFind(abiItems, "function", method),
         LAMBDA i :
    IF i = 0 THEN Effects(<<>>, <<>>, notFound("Method", method))
    ELSE Bind(encodeCall(abiItems[i], args),
              LAMBDA data :
                  IF ~data.ok THEN Effects(<<>>, <<>>, data)
                  ELSE clientSendTransaction(
                           [to |-> ContractAddress, data |-> data.val, value |-> Chars("0x0"),
                            gasLimit |-> Chars("0x100000"), gasPrice |-> Undefined,
                            nonce |-> NaN, chainId |-> 1], node)))

\* Contract.estimateGas
contractEstimateGas(abiItems, method, args, reply) ==
    Bind(abiFind(abiItems, "function", method),
         LAMBDA i :
    IF i = 0 THEN Effects(<<>>, <<>>, notFound("Method", method))
    ELSE Bind(encodeCall(abiItems[i], args),
              LAMBDA data :
                  IF ~data.ok THEN Effects(<<>>, <<>>, data)
                  ELSE Effects(<<Request("eth_estimateGas",
                                         [to |-> ContractAddress, data |-> data.val])>>,
                               <<>>,
                               IF ~reply.ok THEN reply ELSE Ok(parseInt16(reply.val)))))

\* The topics of getPastEvents: the decoder's topic, then, when a filter object
\* is given, one slot per indexed input of eventAbi (null where the filter has
\* no value of that name).  A slot is [ok, val]; encodeParameter may throw.
filterTopics(eventAbi, decoderItem, filter) ==
    <<Ok(Str(eventDecoderTopic(decoderItem)))>> \o
    (IF filter = Undefined THEN <<>>
     ELSE Bind(filterInputs(eventAbi.inputs, TRUE),
               LAMBDA indexedInputs :
                   Tup([k \in 1..Len(indexedInputs) |->
                           IF indexedInputs[k].name \in DOMAIN filter.f
                           THEN Bind(encodeParameter(indexedInputs[k].type,
                                                     filter.f[indexedInputs[k].name]),
                                     LAMBDA e : IF e.ok THEN Ok(Str(e.val)) ELSE e)
                           ELSE Ok(Null)])))

\* logs.map(log => decoder.decode(log)): the first decode that throws ends it.
decodeLogs(decoderItem, logs) ==
    Bind(Tup([k \in 1..Len(logs) |-> eventDecode(decoderItem, logs[k])]),
         LAMBDA d :
             IF \E k \in 1..Len(d) : ~d[k].ok
             THEN d[CHOOSE k \in 1..Len(d) : ~d[k].ok /\ \A j \in 1..(k - 1) : d[j].ok]
             ELSE Ok(Arr(Tup([k \in 1..Len(d) |-> d[k].val]))))

\* Contract.getPastEvents
contractGetPastEvents(abiItems, eventName, filter, reply) ==
    Bind(abiFind(abiItems, "event", eventName),
         LAMBDA i :
    IF i = 0 THEN Effects(<<>>, <<>>, notFound("Event", eventName))
    ELSE IF registryEntry(abiItems, "event", eventName) = 0
    THEN Effects(<<>>, <<>>, Throw("TypeError", Chars("Cannot read properties of undefined")))
    ELSE Bind(abiItems[registryEntry(abiItems, "event", eventName)],
              LAMBDA decoderItem :
         Bind(filterTopics(abiItems[i], decoderItem, filter),
              LAMBDA topics :
                  IF \E k \in 1..Len(topics) : ~topics[k].ok
                  THEN Effects(<<>>, <<>>,
                               topics[CHOOSE k \in 1..Len(topics) :
                                         ~topics[k].ok /\ \A j \in 1..(k - 1) : topics[j].ok])
                  ELSE Effects(<<Request("eth_getLogs",
                                         [address |-> ContractAddress,
                                          topics |-> Tup([k \in 1..Len(topics) |-> topics[k].val])])>>,
                               <<>>,
                               IF ~reply.ok THEN reply ELSE decodeLogs(decoderItem, reply.val)))))


(***************************************************************************)
(* The libraries the wallet is built on.  secp256k1 is modelled by its     *)
(* interface: key validation is exact (32 bytes, 0 < key < curve order);   *)
(* the public key and the signature are deterministic stand-ins that       *)
(* depend on every byte of their inputs (ecdsaSign is called without a     *)
(* nonce function, so the library derives the nonce from key and digest).  *)
(***************************************************************************)
CurveOrder ==
    Tup([i \in 1..64 |->
            HexValOrNaN(Chars("fffffffffffffffffffffffffffffffebaaedce6af48a03bbfd25e8cd0364141")[i])])

\* The hexadecimal digits of a byte string, leading zeros dropped.
bytesToMag(bytes) ==
    StripZeros(Tup([i \in 1..(2 * Len(bytes)) |->
                       IF i % 2 = 1 THEN bytes[(i + 1) \div 2] \div 16
                       ELSE bytes[i \div 2] % 16]))

\* secp256k1.privateKeyVerify
privateKeyVerify(seckey) ==
    /\ Len(seckey) = 32
    /\ Bind(bytesToMag(seckey), LAMBDA m : m # <<>> /\ MagCmp(m, CurveOrder) < 0)

\* secp256k1.publicKeyCreate(seckey, false): 0x04 and 64 bytes.
publicKeyCreate(seckey) ==
    IF Len(seckey) # 32
    THEN Throw("Error", Chars("Expected private key to be an Uint8Array with length 32"))
    ELSE IF ~privateKeyVerify(seckey) THEN Throw("Error", Chars("Private Key is invalid"))
    ELSE Ok(<<4>> \o hexToBytes(keccak256Bytes(<<3>> \o seckey))
                  \o hexToBytes(keccak256Bytes(<<5>> \o seckey)))

\* secp256k1.ecdsaSign(msg32, seckey): {signature: r ++ s, recid}.
ecdsaSign(msg32, seckey) ==
    IF Len(msg32) # 32
    THEN Throw("Error", Chars("Expected message to be an Uint8Array with length 32"))
    ELSE IF Len(seckey) # 32
    THEN Throw("Error", Chars("Expected private key to be an Uint8Array with length 32"))
    ELSE IF ~privateKeyVerify(seckey)
    THEN Throw("Error", Chars("The nonce generation function failed, or the private key was invalid"))
    ELSE Bind(hexToBytes(keccak256Bytes(<<1>> \o seckey \o msg32))
                 \o hexToBytes(keccak256Bytes(<<2>> \o seckey \o msg32)),
              LAMBDA signature : Ok([signature |-> signature, recid |-> signature[32] % 2]))

\* The big-endian bytes of a non-negative integer, none for zero.
RECURSIVE natToBytes(_)
natToBytes(n) == IF n = 0 THEN <<>> ELSE natToBytes(n \div 256) \o <<n % 256>>

\* rlp: the length prefix of a string (offset 128) or a list (offset 192).
rlpEncodeLength(len, offset) ==
    IF len < 56 THEN <<offset + len>>
    ELSE <<offset + 55 + Len(natToBytes(len))>> \o natToBytes(len)

\* An encoder that writes the number 0 as the byte 0x00.
rlpEncodeItemZeroByte(item) ==
    Bind(IF item.t = "num" THEN (IF item.n = 0 THEN <<0>> ELSE natToBytes(item.n)) ELSE item.b,
         LAMBDA bytes :
             IF Len(bytes) = 1 /\ bytes[1] < 128 THEN bytes
             ELSE rlpEncodeLength(Len(bytes), 128) \o bytes)

\* rlp.encode of one item: a Uint8Array as it is, a number as its big-endian
\* bytes (0 as the empty string).
rlpEncodeItem(item) ==
    Bind(IF item.t = "num" THEN natToBytes(item.n) ELSE item.b,
         LAMBDA bytes :
             IF Len(bytes) = 1 /\ bytes[1] < 128 THEN bytes
             ELSE rlpEncodeLength(Len(bytes), 128) \o bytes)

\* rlp.encode of a list of items.
rlpEncode(items) ==
    Bind(Flatten(Tup([i \in 1..Len(items) |-> rlpEncodeItem(items[i])])),
         LAMBDA payload : rlpEncodeLength(Len(payload), 192) \o payload)

(***************************************************************************)
(* Wallet (src/dist/wallet.js).  A wallet is [privateKey, publicKey,       *)
(* address]; an operation yields its result and the library calls it made  *)
(* (what was hashed, what was signed with which key).                      *)
(***************************************************************************)
Run(result, trace) == [result |-> result, trace |-> trace]

\* A method call as it returns: the wallet and the arguments as the call
\* leaves them, the value returned or the error thrown, the library calls.
Returned(this, args, run) ==
    [this |-> this, args |-> args, result |-> run.result, trace |-> run.trace]

Hashed(input) == [fn |-> "keccak256", input |-> input]

Signed(msg32, seckey, sig) ==
    [fn |-> "ecdsaSign", msg32 |-> msg32, seckey |-> seckey,
     signature |-> IF sig.ok THEN sig.val.signature ELSE <<>>,
     recid |-> IF sig.ok THEN sig.val.recid ELSE NaN]

\* utils.isAddress: /^0x[0-9a-fA-F]{40}$/
isAddress(address) ==
    /\ Len(address) = 42
    /\ startsWith(address, Hex0x)
    /\ \A i \in 3..42 : IsHexChar(address[i])

toUpperCaseChar(c) ==
    IF \E i \in 11..16 : HexDigits[i] = c
    THEN Chars("ABCDEF")[(CHOOSE i \in 11..16 : HexDigits[i] = c) - 10]
    ELSE c

\* utils.toChecksumAddress (EIP-55)
toChecksumAddress(address) ==
    IF ~isAddress(address) THEN Throw("Error", Chars("Invalid address"))
    ELSE Bind(sliceFrom(toLowerCase(address), 2),
              LAMBDA addr :
         Bind(keccak256(addr),
              LAMBDA hash :
                  Ok(Hex0x \o Tup([i \in 1..40 |->
                                      IF HexValOrNaN(hash[i]) >= 8 THEN toUpperCaseChar(addr[i])
                                      ELSE addr[i]]))))

\* Wallet.derivePublicKey
derivePublicKey(privateKeyHex) ==
    Bind(publicKeyCreate(hexToBytes(privateKeyHex)),
         LAMBDA publicKeyBytes :
             IF ~publicKeyBytes.ok THEN publicKeyBytes
             ELSE Ok(bytesToHex(SubSeq(publicKeyBytes.val, 2, Len(publicKeyBytes.val)))))

\* An address taken from the first 20 bytes of the hash.
deriveAddressHead(publicKey) ==
    toChecksumAddress(Hex0x \o slice(keccak256Bytes(hexToBytes(strip0x(publicKey))), 0, 40))

\* Wallet.deriveAddress
deriveAddress(publicKey) ==
    toChecksumAddress(Hex0x \o sliceLast(keccak256Bytes(hexToBytes(strip0x(publicKey))), 40))

\* The three assignments both branches of the constructor make for a key in
\* hexadecimal without prefix.
keyWallet(cleanKey) ==
    Bind(derivePublicKey(cleanKey),
         LAMBDA publicKey :
             IF ~publicKey.ok THEN publicKey
             ELSE Bind(deriveAddress(publicKey.val),
                       LAMBDA address :
                           IF ~address.ok THEN address
                           ELSE Ok([privateKey |-> Hex0x \o cleanKey,
                                    publicKey |-> publicKey.val,
                                    address |-> address.val])))

\* A reading of the key that takes only lower-case digits as hexadecimal.
privateKeyBytesLowerOnly(wallet) ==
    hexToBytes(Tup([i \in 1..(Len(wallet.privateKey) - 2) |->
                       IF wallet.privateKey[i + 2] \in {"A", "B", "C", "D", "E", "F"} THEN "0"
                       ELSE wallet.privateKey[i + 2]]))

\* hexToBytes(this.privateKey.slice(2))
privateKeyBytesOf(wallet) == hexToBytes(sliceFrom(wallet.privateKey, 2))

\* The tail sign and signTypedData share: hash, ecdsaSign, r + s + v.
signDigest(wallet, hashed) ==
    Bind(hexToBytes(keccak256Bytes(hashed)),
         LAMBDA hash :
    Bind(privateKeyBytesOf(wallet),
         LAMBDA privateKeyBytes :
    Bind(ecdsaSign(hash, privateKeyBytes),
         LAMBDA sig :
             Run(IF ~sig.ok THEN sig
                 ELSE Ok(Str(bytesToHex(SubSeq(sig.val.signature, 1, 32))
                             \o sliceFrom(bytesToHex(SubSeq(sig.val.signature, 33, 64)), 2)
                             \o padStart(numberToString16(sig.val.recid + 27), 2, "0"))),
                 <<Hashed(hashed), Signed(hash, privateKeyBytes, sig)>>))))

\* A sign that writes the number of characters of the message in the prefix.
walletSignCharCount(wallet, message) ==
    Returned(wallet, message,
        IF message.t \notin {"str", "bytes"}
        THEN Run(Throw("TypeError", Chars("Cannot read properties of undefined (reading 'length')")),
                 <<>>)
        ELSE
        Bind(IF message.t = "str" THEN textEncode(message.s) ELSE message.b,
             LAMBDA messageBytes :
                 signDigest(wallet,
                            textEncode(<<"U+0019">> \o Chars("Ethereum Signed Message:")
                                           \o <<"U+000a">>
                                           \o bigToString(BigNat(IF message.t = "str"
                                                                 THEN Len(message.s)
                                                                 ELSE Len(message.b))))
                                \o messageBytes)))

\* Wallet.sign
walletSign(wallet, message) ==
    Returned(wallet, message,
        IF message.t \notin {"str", "bytes"}
        THEN Run(Throw("TypeError", Chars("Cannot read properties of undefined (reading 'length')")),
                 <<>>)
        ELSE
        Bind(IF message.t = "str" THEN textEncode(message.s) ELSE message.b,
             LAMBDA messageBytes :
                 signDigest(wallet,
                            textEncode(<<"U+0019">> \o Chars("Ethereum Signed Message:")
                                           \o <<"U+000a">>
                                           \o bigToString(BigNat(Len(messageBytes))))
                                \o messageBytes)))

\* types[typeName] || []: types is a sequence of [name, fields] in key order.
typeFieldsOf(types, typeName) ==
    IF \E k \in 1..Len(types) : types[k].name = typeName
    THEN types[CHOOSE k \in 1..Len(types) : types[k].name = typeName].fields
    ELSE <<>>

\* Wallet.encodeType
encodeType(typeName, types) ==
    Bind(typeFieldsOf(types, typeName),
         LAMBDA fields :
             typeName \o <<"(">>
                 \o join(Tup([k \in 1..Len(fields) |->
                                 fields[k].type \o <<" ">> \o fields[k].name]), <<",">>)
                 \o <<")">>)

\* What one field adds to `encoded` in hashStruct.
encodeField(field, data) ==
    Bind(IF field.name \in DOMAIN data THEN data[field.name] ELSE Undefined,
         LAMBDA value :
             IF value = Undefined THEN Ok(<<>>)
             ELSE IF field.type = Chars("string")
             THEN IF value.t = "str" THEN Ok(keccak256(value.s))
                  ELSE Throw("Error", Chars("input is invalid type"))
             ELSE IF field.type \in {Chars("uint256"), Chars("uint")}
             THEN Bind(toBigInt(value),
                       LAMBDA num : IF ~num.ok THEN num
                                    ELSE Ok(padStart(bigToString16(num.val), 64, "0")))
             ELSE IF field.type = Chars("address")
             THEN IF value.t = "str" THEN Ok(padStart(sliceFrom(value.s, 2), 64, "0"))
                  ELSE NotAFunction
             ELSE Ok(<<>>))

\* hashStruct: the pieces of `encoded` after the type hash, one per field.
encodeFields(typeFields, data) ==
    Tup([k \in 1..Len(typeFields) |-> encodeField(typeFields[k], data)])

\* hashStruct: the first error thrown while encoding, or the hash of the
\* bytes that `encoded` spells.
hashEncoded(typeHash, parts) ==
    IF \E k \in 1..Len(parts) : ~parts[k].ok
    THEN parts[CHOOSE k \in 1..Len(parts) : ~parts[k].ok /\ \A j \in 1..(k - 1) : parts[j].ok]
    ELSE Ok(Hex0x \o keccak256Bytes(hexToBytes(
                typeHash \o Flatten(Tup([k \in 1..Len(parts) |-> parts[k].val])))))

\* Wallet.hashStruct
hashStruct(typeName, data, types) ==
    hashEncoded(keccak256(encodeType(typeName, types)),
                encodeFields(typeFieldsOf(types, typeName), data))

EIP712DomainTypes ==
    <<[name |-> Chars("EIP712Domain"),
       fields |-> <<[name |-> Chars("name"), type |-> Chars("string")],
                    [name |-> Chars("version"), type |-> Chars("string")],
                    [name |-> Chars("chainId"), type |-> Chars("uint256")],
                    [name |-> Chars("verifyingContract"), type |-> Chars("address")]>>]>>

\* Object.keys(types).find(t => t !== 'EIP712Domain') || ''
primaryTypeOf(types) ==
    IF \E k \in 1..Len(types) : types[k].name # Chars("EIP712Domain")
    THEN types[CHOOSE k \in 1..Len(types) :
                  /\ types[k].name # Chars("EIP712Domain")
                  /\ \A j \in 1..(k - 1) : types[j].name = Chars("EIP712Domain")].name
    ELSE <<>>

\* Wallet.signTypedData
walletSignTypedData(wallet, domain, types, value) ==
    Returned(wallet, <<domain, types, value>>,
        Bind(hashStruct(Chars("EIP712Domain"), domain, EIP712DomainTypes),
             LAMBDA domainHash :
                 IF ~domainHash.ok THEN Run(domainHash, <<>>)
                 ELSE Bind(hashStruct(primaryTypeOf(types), value, types),
                           LAMBDA messageHash :
                               IF ~messageHash.ok THEN Run(messageHash, <<>>)
                               ELSE signDigest(wallet,
                                               textEncode(<<"U+0019", "U+0001">>
                                                              \o sliceFrom(domainHash.val, 2)
                                                              \o sliceFrom(messageHash.val, 2))))))

\* Wallet.toRlpNumber
toRlpNumber(value) ==
    Bind(toBigInt(value),
         LAMBDA num :
             IF ~num.ok THEN num
             ELSE IF num.val.mag = <<>> THEN Ok(Bytes(<<>>))
             ELSE Bind(bigToString16(num.val),
                       LAMBDA hex :
                           Ok(Bytes(hexToBytes(IF Len(hex) % 2 = 1 THEN <<"0">> \o hex ELSE hex)))))

\* x || fallback
orElse(x, fallback) == IF truthy(x) THEN x ELSE fallback

\* tx.to ? hexToBytes(tx.to) : new Uint8Array(0), and tx.data likewise
bytesOrEmpty(x) == IF truthy(x) THEN Bytes(hexToBytes(x.s)) ELSE Bytes(<<>>)

\* The first six items of rawTx, in the order the code evaluates them.
txFields(tx) ==
    <<toRlpNumber(orElse(tx.nonce, Num(0))),
      toRlpNumber(orElse(tx.gasPrice, Str(Chars("0x3B9ACA00")))),
      toRlpNumber(orElse(tx.gasLimit, Num(21000))),
      Ok(bytesOrEmpty(tx.to)),
      toRlpNumber(orElse(tx.value, Num(0))),
      Ok(bytesOrEmpty(tx.data))>>

\* Wallet.signTransaction
walletSignTransaction(wallet, tx) ==
    Returned(wallet, tx,
        Bind(orElse(tx.chainId, Num(1337)).n,
             LAMBDA chainId :
        Bind(txFields(tx),
             LAMBDA fields :
                 IF \E k \in 1..6 : ~fields[k].ok
                 THEN Run(fields[CHOOSE k \in 1..6 : ~fields[k].ok /\ \A j \in 1..(k - 1) : fields[j].ok],
                          <<>>)
                 ELSE Bind(Tup([k \in 1..6 |-> fields[k].val]),
                           LAMBDA six :
                      Bind(rlpEncode(six \o <<Num(chainId), Num(0), Num(0)>>),
                           LAMBDA encoded :
                      Bind(hexToBytes(keccak256Bytes(encoded)),
                           LAMBDA hash :
                      Bind(privateKeyBytesOf(wallet),
                           LAMBDA privateKeyBytes :
                      Bind(ecdsaSign(hash, privateKeyBytes),
                           LAMBDA sig :
                               Run(IF ~sig.ok THEN sig
                                   ELSE Ok(Str(bytesToHex(rlpEncode(
                                           six \o <<Num(sig.val.recid + chainId * 2 + 35),
                                                    Bytes(SubSeq(sig.val.signature, 1, 32)),
                                                    Bytes(SubSeq(sig.val.signature, 33, 64))>>)))),
                                   <<Hashed(encoded), Signed(hash, privateKeyBytes, sig)>>)))))))))

\* Wallet.export
walletExport(wallet) ==
    Returned(wallet, <<>>,
        Run(Ok([address |-> wallet.address, privateKey |-> wallet.privateKey,
                publicKey |-> wallet.publicKey]), <<>>))

(***************************************************************************)
(* Inputs of the contract operations and the node's replies.               *)
(***************************************************************************)
EvLower ==
    AbiItem("event", "transfer", <<Param("who", "address", TRUE)>>, <<>>)

EvAnonymous == AbiItem("event", "", <<>>, <<>>)

FnUpdate == AbiItem("function", "Update", <<>>, <<>>)

EvNote ==
    AbiItem("event", "Note",
            <<Param("tag", "string", TRUE), Param("amount", "uint256", FALSE),
              Param("who", "address", TRUE)>>,
            <<>>)

Abi1 == <<FnTransfer, FnBalanceOf, FnName, EvTransfer>>

Abi2 ==
    <<EvTransfer721, EvTransfer, FnConfigure, EvLower, EvAnonymous, FnUpdate, FnBalanceOf,
      EvNote>>

Abis == {Abi1, Abi2}

Names ==
    {Chars(t) : t \in {"transfer", "balanceOf", "Transfer", "Update", "approve", "Note", ""}}

CallArgLists == {<<>>, <<Str(AddrChecksum)>>, <<Str(AddrLower), BigOf(1000)>>}

RpcError == Throw("Error", Chars("RPC Error -32000: execution reverted"))

CallReplies == {RpcError, Ok(Hex0x \o Word(BigOf(1))), Ok(Hex0x)}

GasReplies == {RpcError, Ok(Chars("0x5208")), Ok(Hex0x)}

Receipt == [transactionHash |-> Hash32, blockNumber |-> Chars("0x10")]

NodeOk ==
    [nonce |-> Ok(Chars("0x5")), gasPrice |-> Ok(Chars("0x4a817c800")),
     send |-> Ok(Hash32), receipt |-> Ok(Receipt)]

Nodes ==
    {NodeOk,
     [NodeOk EXCEPT !.nonce = RpcError],
     [NodeOk EXCEPT !.gasPrice = RpcError],
     [NodeOk EXCEPT !.send = RpcError],
     [NodeOk EXCEPT !.receipt = RpcError]}

Filter(f) == [t |-> "object", f |-> f]

Filters ==
    {Undefined,
     Filter(<<>>),
     Filter([k \in {Chars("to")} |-> Str(AddrChecksum)]),
     Filter([k \in {Chars("from"), Chars("value")} |-> BigOf(5)]),
     Filter([k \in {Chars("tag"), Chars("amount")} |-> Str(<<"a">>)]),
     Filter([k \in {Chars("who"), Chars("amount")} |-> Str(AddrLower)])}

LogTransfer ==
    [topics |-> <<Hash32, Hex0x \o Repeat("0", 24) \o sliceFrom(AddrLower, 2),
                  Hex0x \o Repeat("0", 64)>>,
     data |-> Hex0x \o Word(BigOf(1000))]

LogShort == [topics |-> <<Hash32>>, data |-> Hex0x]

LogReplies == {RpcError, Ok(<<>>), Ok(<<LogTransfer>>), Ok(<<LogTransfer, LogShort>>)}

(***************************************************************************)
(* The contract as a state machine: one operation at a time on a contract  *)
(* built from one of the ABIs.                                             *)
(***************************************************************************)
Apply(e) ==
    /\ rpcLog' = rpcLog \o e.requests
    /\ signLog' = signLog \o e.signed
    /\ outcome' = e.result
    /\ UNCHANGED <<abi, out>>
    /\ WalletIdle
    /\ ClientsIdle

Init ==
    /\ op = [fn |-> "none", n |-> 0]
    /\ out = Ok(Null)
    /\ abi \in Abis
    /\ rpcLog = <<>>
    /\ signLog = <<>>
    /\ outcome = Ok(Null)
    /\ NoWallets
    /\ NoClients

Call ==
    /\ op.n < MaxOps
    /\ \E method \in Names : \E args \in CallArgLists : \E reply \in CallReplies :
          /\ op' = [fn |-> "call", name |-> method, args |-> args, n |-> op.n + 1]
          /\ Apply(contractCall(abi, method, args, reply))

Send ==
    /\ op.n < MaxOps
    /\ \E method \in Names : \E args \in CallArgLists : \E node \in Nodes :
          /\ op' = [fn |-> "send", name |-> method, args |-> args, n |-> op.n + 1]
          /\ Apply(contractSend(abi, method, args, node))

EstimateGas ==
    /\ op.n < MaxOps
    /\ \E method \in Names : \E args \in CallArgLists : \E reply \in GasReplies :
          /\ op' = [fn |-> "estimateGas", name |-> method, args |-> args, n |-> op.n + 1]
          /\ Apply(contractEstimateGas(abi, method, args, reply))

GetPastEvents ==
    /\ op.n < MaxOps
    /\ \E eventName \in Names : \E filter \in Filters : \E reply \in LogReplies :
          /\ op' = [fn |-> "getPastEvents", name |-> eventName, filter |-> filter,
                    n |-> op.n + 1]
          /\ Apply(contractGetPastEvents(abi, eventName, filter, reply))

Next ==
    \/ Call
    \/ Send
    \/ EstimateGas
    \/ GetPastEvents

Spec == Init /\ [][Next]_vars

(***************************************************************************)
(* Signing with constructed wallets: two Wallet objects, and the calls of  *)
(* sign, signTypedData, signTransaction and export on them.                *)
(***************************************************************************)
Slots == {1, 2}

KeyUpper == Repeat("A", 1) \o Repeat("B", 63)

KeyLower == toLowerCase(KeyUpper)

KeyOther == Repeat("0", 63) \o <<"1">>

WalletUpper == keyWallet(KeyUpper).val

WalletLower == keyWallet(KeyLower).val

WalletOther == keyWallet(KeyOther).val

WalletPairs ==
    {<<WalletUpper, WalletLower>>, <<WalletUpper, WalletUpper>>,
     <<WalletOther, WalletLower>>, <<WalletLower, WalletOther>>}

Messages == {Str(<<"h", "i">>), Str(<<"a", "U+00e9">>), Bytes(<<0, 255, 7>>), Undefined}

Tx(nonce, gasPrice, gasLimit, to, value, data, chainId) ==
    [nonce |-> nonce, gasPrice |-> gasPrice, gasLimit |-> gasLimit, to |-> to,
     value |-> value, data |-> data, chainId |-> chainId]

LongData == Str(Hex0x \o Repeat("a", 1) \o Repeat("5", 119))

Transactions ==
    {Tx(Undefined, Undefined, Undefined, Undefined, Undefined, Undefined, Undefined),
     Tx(Num(1), Undefined, Num(21000), Str(AddrLower), Str(Chars("0x10")), Undefined, Num(7770)),
     Tx(Num(0), Str(Chars("7")), Undefined, Null, Undefined, LongData, Num(1)),
     Tx(Num(128), Num(1000000000), Num(100000), Str(AddrChecksum), BigOf(256),
        Str(Chars("0xa9059cbb")), Num(7770)),
     Tx(Num(2), Undefined, Undefined, Str(AddrLower), Num(5), Undefined, Num(0)),
     Tx(Str(<<"x">>), Undefined, Undefined, Str(AddrLower), Undefined, Undefined, Num(7770)),
     Tx(Num(1), Undefined, Undefined, Str(AddrLower), Undefined, Undefined, Undefined)}

Field(name, type) == [name |-> Chars(name), type |-> Chars(type)]

MailTypes ==
    <<[name |-> Chars("Mail"),
       fields |-> <<Field("contents", "string"), Field("amount", "uint256"),
                    Field("to", "address")>>]>>

OrderTypes ==
    <<EIP712DomainTypes[1],
      [name |-> Chars("Order"), fields |-> <<Field("amount", "uint"), Field("open", "bool")>>]>>

DomainFull ==
    (Chars("name") :> Str(Chars("App"))) @@ (Chars("version") :> Str(<<"1">>))
        @@ (Chars("chainId") :> Num(7770)) @@ (Chars("verifyingContract") :> Str(AddrLower))

DomainName == (Chars("name") :> Str(Chars("App")))

TypedData ==
    {<<DomainFull, MailTypes,
       (Chars("contents") :> Str(<<"h", "i">>)) @@ (Chars("amount") :> Num(5))
           @@ (Chars("to") :> Str(AddrChecksum))>>,
     <<DomainName, OrderTypes, (Chars("amount") :> Str(Chars("12"))) @@ (Chars("open") :> Bool(TRUE))>>,
     <<DomainName, OrderTypes, (Chars("amount") :> Str(<<"x">>))>>,
     <<DomainFull, <<>>, (Chars("amount") :> Num(5))>>}

\* A method call on wallet object w, from the call to its return.
Method(w, fn, args, returned) ==
    /\ wallets[w] # NoWallet
    /\ op' = [fn |-> fn, w |-> w, args |-> args, left |-> returned.args]
    /\ out' = returned.result
    /\ libLog' = returned.trace
    /\ wallets' = [wallets EXCEPT ![w] = returned.this]
    /\ UNCHANGED <<abi, rpcLog, signLog, outcome, keygen, token, client, socket>>

InitSign ==
    /\ op = [fn |-> "none"]
    /\ out = Ok(Null)
    /\ abi = <<>>
    /\ rpcLog = <<>>
    /\ signLog = <<>>
    /\ outcome = Ok(Null)
    /\ wallets \in WalletPairs
    /\ keygen = KeygenIdle
    /\ libLog = <<>>
    /\ NoClients

Sign ==
    /\ keygen.pc = "idle"
    /\ \E w \in Slots : \E message \in Messages :
           Method(w, "sign", message, walletSign(wallets[w], message))

SignTypedData ==
    /\ keygen.pc = "idle"
    /\ \E w \in Slots : \E typed \in TypedData :
           Method(w, "signTypedData", typed,
                  walletSignTypedData(wallets[w], typed[1], typed[2], typed[3]))

SignTransaction ==
    /\ keygen.pc = "idle"
    /\ \E w \in Slots : \E tx \in Transactions :
           Method(w, "signTransaction", tx, walletSignTransaction(wallets[w], tx))

Export ==
    /\ keygen.pc = "idle"
    /\ \E w \in Slots : Method(w, "export", <<>>, walletExport(wallets[w]))

NextSign ==
    \/ Sign
    \/ SignTypedData
    \/ SignTransaction
    \/ Export

SpecSign == InitSign /\ [][NextSign]_vars

(***************************************************************************)
(* Construction: new Wallet(privateKey) on one of two variables, with the  *)
(* key generation loop of generatePrivateKey as a process of its own       *)
(* (the constructor is synchronous: nothing else runs while it loops).     *)
(***************************************************************************)
\* The constructor's branch for a supplied key.
walletFromKey(privateKey) ==
    keyWallet(IF startsWith(privateKey, Hex0x) THEN sliceFrom(privateKey, 2) ELSE privateKey)

\* Buffer.from(bytes).toString('hex'), then the constructor's other branch.
walletFromBytes(bytes) == keyWallet(sliceFrom(bytesToHex(bytes), 2))

OrderText == Chars("fffffffffffffffffffffffffffffffebaaedce6af48a03bbfd25e8cd0364141")

OrderLessOne == SubSeq(OrderText, 1, 63) \o <<"0">>

Keys ==
    {Undefined, Str(<<>>), Str(Hex0x),
     Str(KeyUpper), Str(Hex0x \o KeyUpper), Str(KeyLower), Str(OrderLessOne),
     Str(Repeat("0", 64)), Str(OrderText), Str(Hex0x \o OrderText),
     Str(SubSeq(KeyLower, 1, 62)), Str(KeyLower \o <<"a", "b">>),
     Str(KeyLower \o <<"f">>), Str(<<"z", "z">> \o SubSeq(KeyLower, 3, 64))}

\* What the random source may put in the 32 bytes.
Candidates ==
    {hexToBytes(Repeat("0", 64)), hexToBytes(OrderText), hexToBytes(KeyOther)}

\* The value of a call that has not returned yet.
Pending == Ok(Undefined)

InitWallet ==
    /\ op = [fn |-> "none"]
    /\ out = Ok(Null)
    /\ abi = <<>>
    /\ rpcLog = <<>>
    /\ signLog = <<>>
    /\ outcome = Ok(Null)
    /\ NoWallets
    /\ NoClients

\* The constructor returns the object, or throws and leaves none.
Made(w, made) ==
    /\ out' = made
    /\ wallets' = [wallets EXCEPT ![w] = IF made.ok THEN made.val ELSE NoWallet]

\* new Wallet(privateKey) with a key: the object exists if no error is thrown.
Construct ==
    /\ keygen.pc = "idle"
    /\ \E w \in Slots : \E privateKey \in Keys :
          /\ wallets[w] = NoWallet
          /\ truthy(privateKey)
          /\ op' = [fn |-> "new", w |-> w, args |-> privateKey, left |-> privateKey]
          /\ Made(w, walletFromKey(privateKey.s))
          /\ UNCHANGED <<abi, rpcLog, signLog, outcome, keygen, libLog, token, client, socket>>

\* new Wallet() or new Wallet(''): generatePrivateKey fills the 32 bytes from
\* crypto.getRandomValues, or from randomBytes when there is no global crypto.
GenerateStart ==
    /\ keygen.pc = "idle"
    /\ \E w \in Slots : \E privateKey \in Keys : \E crypto \in BOOLEAN : \E bytes \in Candidates :
          /\ wallets[w] = NoWallet
          /\ ~truthy(privateKey)
          /\ op' = [fn |-> "new", w |-> w, args |-> privateKey, left |-> privateKey]
          /\ out' = Pending
          /\ keygen' = [pc |-> "loop", w |-> w, bytes |-> bytes, crypto |-> crypto]
          /\ UNCHANGED <<abi, rpcLog, signLog, outcome, wallets, libLog, token, client, socket>>

\* One turn of while (!privateKeyVerify(bytes)): the bytes are drawn again
\* only when there is a global crypto.
GenerateRetry ==
    /\ keygen.pc = "loop"
    /\ ~privateKeyVerify(keygen.bytes)
    /\ IF keygen.crypto
       THEN \E bytes \in Candidates : keygen' = [keygen EXCEPT !.bytes = bytes]
       ELSE keygen' = keygen
    /\ UNCHANGED <<op, out, abi, rpcLog, signLog, outcome, wallets, libLog, token, client, socket>>

\* The loop is left with valid bytes, and the constructor derives the rest.
GenerateDone ==
    /\ keygen.pc = "loop"
    /\ privateKeyVerify(keygen.bytes)
    /\ Made(keygen.w, walletFromBytes(keygen.bytes))
    /\ keygen' = KeygenIdle
    /\ UNCHANGED <<op, abi, rpcLog, signLog, outcome, libLog, token, client, socket>>

NextWallet ==
    \/ Construct
    \/ GenerateStart
    \/ GenerateRetry
    \/ GenerateDone

SpecWallet == InitWallet /\ [][NextWallet]_vars

\* A turn of the loop in which the random source yields a valid candidate.
RedrawValid ==
    /\ keygen.pc = "loop"
    /\ ~privateKeyVerify(keygen.bytes)
    /\ keygen.crypto
    /\ \E bytes \in Candidates :
          /\ privateKeyVerify(bytes)
          /\ keygen' = [keygen EXCEPT !.bytes = bytes]
    /\ UNCHANGED <<op, out, abi, rpcLog, signLog, outcome, wallets, libLog, token, client, socket>>

\* The loop is left: in NextWallet only GenerateDone takes this step.
LoopExit ==
    /\ keygen.pc = "loop"
    /\ privateKeyVerify(keygen.bytes)
    /\ keygen' = KeygenIdle

\* The loop keeps turning, the random source yields a valid candidate again
\* and again when it is asked, and the constructor then returns.
SpecWalletFair ==
    /\ SpecWallet
    /\ WF_vars(GenerateRetry)
    /\ SF_vars(RedrawValid)
    /\ WF_keygen(LoopExit)

(***************************************************************************)
(* ERC20 and ERC721 token helpers: one instance with its cached name,      *)
(* symbol and decimals, and calls on it whose awaits interleave.           *)
(***************************************************************************)
Fn(name, inputs, outputs) == AbiItem("function", name, inputs, outputs)

ERC20_ABI ==
    <<Fn("name", <<>>, <<Param("", "string", FALSE)>>),
      Fn("symbol", <<>>, <<Param("", "string", FALSE)>>),
      Fn("decimals", <<>>, <<Param("", "uint8", FALSE)>>),
      Fn("totalSupply", <<>>, <<Param("", "uint256", FALSE)>>),
      Fn("balanceOf", <<Param("account", "address", FALSE)>>, <<Param("", "uint256", FALSE)>>),
      Fn("allowance", <<Param("owner", "address", FALSE), Param("spender", "address", FALSE)>>,
         <<Param("", "uint256", FALSE)>>),
      Fn("transfer", <<Param("to", "address", FALSE), Param("amount", "uint256", FALSE)>>,
         <<Param("", "bool", FALSE)>>),
      Fn("approve", <<Param("spender", "address", FALSE), Param("amount", "uint256", FALSE)>>,
         <<Param("", "bool", FALSE)>>),
      Fn("transferFrom",
         <<Param("from", "address", FALSE), Param("to", "address", FALSE),
           Param("amount", "uint256", FALSE)>>,
         <<Param("", "bool", FALSE)>>)>>

\* The entries of ERC721_ABI that name() and symbol() look up.
ERC721_ABI ==
    <<Fn("name", <<>>, <<Param("", "string", FALSE)>>),
      Fn("symbol", <<>>, <<Param("", "string", FALSE)>>)>>

tokenAbi(kind) == IF kind = "ERC20" THEN ERC20_ABI ELSE ERC721_ABI

\* Number(dec) of a decoded uint8.
toNumber(dec) == Num(DigitsToNat(dec.mag, 16))

\* amount.split('.'): the text before the first dot, and the text between the
\* first and the second dot ('' when there is no dot).
wholeOf(amount) ==
    IF indexOf(amount, <<".">>) < 0 THEN amount ELSE slice(amount, 0, indexOf(amount, <<".">>))

fractionOf(amount) ==
    IF indexOf(amount, <<".">>) < 0 THEN <<>>
    ELSE wholeOf(sliceFrom(amount, indexOf(amount, <<".">>) + 1))

\* ERC20.parseAmount(amount, decimals), cached being this._decimals.
parseAmount(amount, decimals, cached) ==
    IF amount.t = "big" THEN Ok(amount)
    ELSE Bind(IF truthy(decimals) THEN decimals.n ELSE IF truthy(cached) THEN cached.n ELSE 18,
              LAMBDA dec :
                  stringToBigInt(wholeOf(amount.s)
                      \o slice(padEnd(fractionOf(amount.s), dec, "0"), 0, dec)))

Tasks == {1, 2}

Getters == {"name", "symbol", "decimals"}

Writers == {"transfer", "approve", "transferFrom"}

fieldOf(fn) == IF fn \in Getters THEN fn ELSE "decimals"

AddrOne == Hex0x \o Repeat("0", 39) \o <<"1">>

Amounts ==
    {Str(Chars("100")), Str(Chars("1.5")), Str(Chars("0.1234567")), BigOf(100),
     Str(Chars("max"))}

\* The arguments of name / symbol / decimals, and of the three writers.
TokenArgs(fn) ==
    IF fn \in Getters THEN {<<>>}
    ELSE IF fn = "transferFrom" THEN {<<Str(AddrLower), Str(AddrOne), Str(Chars("0.1234567"))>>}
    ELSE IF fn = "approve" THEN {<<Str(AddrOne), Str(Chars("max"))>>}
    ELSE {<<Str(AddrOne), a>> : a \in Amounts \ {Str(Chars("max")), Str(Chars("0.1234567"))}}

\* The tasks that call the writers; every task calls the getters.
WriterTasks == {1}

\* What the node answers to name() / symbol(), and to decimals().
TextReplies ==
    {RpcError} \cup {Ok(Hex0x \o Word(BigOf(32)) \o DynTail(text)) :
                        text \in {<<>>, Chars("NPY")}}

DecimalsReplies == {RpcError} \cup {Ok(Hex0x \o Word(BigOf(d))) : d \in {0, 6, 18}}

RepliesFor(fn) == IF fieldOf(fn) = "decimals" THEN DecimalsReplies ELSE TextReplies

Idle == [pc |-> "idle"]

Awaiting(fn, args) == [pc |-> "await", fn |-> fn, args |-> args]

Sending(fn, args, decimals) == [pc |-> "send", fn |-> fn, args |-> args, decimals |-> decimals]

Settled(fn, args, result) == [pc |-> "done", fn |-> fn, args |-> args, result |-> result]

\* new ERC20(address, client) / new ERC721(address, client): nothing cached.
\* fetched keeps, for each field, the values fetched successfully so far.
newToken(kind) ==
    [kind |-> kind,
     cache |-> [f \in Getters |-> Undefined],
     fetched |-> [f \in Getters |-> {}],
     calls |-> [t \in Tasks |-> Idle]]

InitToken ==
    /\ op = [fn |-> "none"]
    /\ out = Ok(Null)
    /\ abi = <<>>
    /\ rpcLog = <<>>
    /\ signLog = <<>>
    /\ outcome = Ok(Null)
    /\ NoWallets
    /\ token \in {newToken("ERC20"), newToken("ERC721")}
    /\ client = NoClient
    /\ socket = NoSocket

TokenFrame == UNCHANGED <<abi, outcome, client, socket>> /\ WalletIdle

\* A call is made and runs up to its first await: a cached value that is
\* truthy is returned at once, anything else is fetched with contract.call.
TokenCall ==
    \E t \in Tasks : \E fn \in Getters \cup Writers : \E args \in TokenArgs(fn) :
        /\ token.calls[t] = Idle
        /\ token.kind = "ERC20" \/ fn \in {"name", "symbol"}
        /\ fn \in Writers => t \in WriterTasks
        /\ op' = [fn |-> fn, t |-> t, args |-> args, step |-> "call"]
        /\ IF truthy(token.cache[fieldOf(fn)])
           THEN /\ rpcLog' = rpcLog
                /\ token' = [token EXCEPT !.calls[t] =
                                IF fn \in Getters
                                THEN Settled(fn, args, Ok(token.cache[fn]))
                                ELSE Sending(fn, args, token.cache["decimals"])]
                /\ out' = IF fn \in Getters THEN Ok(token.cache[fn]) ELSE Pending
           ELSE /\ rpcLog' = rpcLog \o contractCall(tokenAbi(token.kind), Chars(fieldOf(fn)),
                                                    <<>>, RpcError).requests
                /\ token' = [token EXCEPT !.calls[t] = Awaiting(fn, args)]
                /\ out' = Pending
        /\ signLog' = signLog
        /\ TokenFrame

\* The eth_call of an awaiting call is answered: an error is thrown on to the
\* caller, a value is stored in the field and handed on.
TokenReply ==
    \E t \in {u \in Tasks : token.calls[u].pc = "await"} :
    \E reply \in RepliesFor(token.calls[t].fn) :
        /\ token.calls[t].pc = "await"
        /\ op' = [fn |-> token.calls[t].fn, t |-> t, args |-> token.calls[t].args,
                  step |-> "reply"]
        /\ LET call == token.calls[t]
               field == fieldOf(call.fn)
               result == contractCall(tokenAbi(token.kind), Chars(field), <<>>, reply).result
               value == IF field = "decimals" THEN toNumber(result.val) ELSE result.val
           IN  IF ~result.ok
               THEN /\ token' = [token EXCEPT !.calls[t] = Settled(call.fn, call.args, result)]
                    /\ out' = result
               ELSE /\ token' = [token EXCEPT
                                    !.cache[field] = value,
                                    !.fetched[field] = @ \cup {value},
                                    !.calls[t] = IF call.fn \in Getters
                                                 THEN Settled(call.fn, call.args, Ok(value))
                                                 ELSE Sending(call.fn, call.args, value)]
                    /\ out' = IF call.fn \in Getters THEN Ok(value) ELSE Pending
        /\ UNCHANGED <<rpcLog, signLog>>
        /\ TokenFrame

\* The argument list a writer hands to contract.send.
writerArgs(call, amountWei) == SubSeq(call.args, 1, Len(call.args) - 1) \o <<amountWei>>

MaxUint256 == BigSub(BigPow2(256), BigNat(1))

\* transfer / approve / transferFrom after await this.decimals(): the amount
\* is parsed and contract.send encodes, signs and sends the call.
TokenSend ==
    \E t \in Tasks : \E node \in {NodeOk} :
        /\ token.calls[t].pc = "send"
        /\ op' = [fn |-> token.calls[t].fn, t |-> t, args |-> token.calls[t].args,
                  step |-> "send", decimals |-> token.calls[t].decimals]
        /\ LET call == token.calls[t]
               amount == call.args[Len(call.args)]
               amountWei == IF call.fn = "approve" /\ amount = Str(Chars("max"))
                            THEN Ok(MaxUint256)
                            ELSE parseAmount(amount, call.decimals, token.cache["decimals"])
               e == IF amountWei.ok
                    THEN contractSend(ERC20_ABI, Chars(call.fn), writerArgs(call, amountWei.val),
                                      node)
                    ELSE Effects(<<>>, <<>>, amountWei)
           IN  /\ rpcLog' = rpcLog \o e.requests
               /\ signLog' = signLog \o e.signed
               /\ out' = e.result
               /\ token' = [token EXCEPT !.calls[t] = Settled(call.fn, call.args, e.result)]
        /\ TokenFrame

NextToken ==
    \/ TokenCall
    \/ TokenReply
    \/ TokenSend

SpecToken == InitToken /\ [][NextToken]_vars

(***************************************************************************)
(* The NanoPy client: sendTransaction calls whose awaits interleave, and   *)
(* RPCClient.waitForTransaction.  A call keeps its local variables and the *)
(* trace of the requests it has made; the node keeps the sender's count of *)
(* accepted transactions.                                                  *)
(***************************************************************************)
\* utils.hexToNumber
hexToNumber(hex) == parseInt16(hex)

DefaultGasPrice == Chars("0x3B9ACA00")

\* The bound on polls of one waitForTransaction call (time runs out then).
MaxPolls == 2

InFlight(pc, fn, local, trace) == [pc |-> pc, fn |-> fn, local |-> local, trace |-> trace]

Finished(call, trace, result) ==
    [pc |-> "done", fn |-> call.fn, local |-> call.local, trace |-> trace, result |-> result]

SignCall(tx) == [method |-> "signTransaction", arg |-> tx]

\* new NanoPy(url, options): chainId, and gasPrice null unless configured.
newClient(chainId, gasPrice) ==
    [chainId |-> chainId, gasPrice |-> gasPrice, count |-> 5, calls |-> [t \in Tasks |-> Idle]]

ClientConfigs == {newClient(7770, Null), newClient(1337, Str(Chars("0x2540be400")))}

SenderWallet == WalletUpper

TxHash == Hash32

\* The requests callers make: nothing but the payment; a gas price, a chain id
\* and a nonce of the caller's own; the gas price 0n.
TxPlain == Tx(Undefined, Undefined, Str(Chars("0x5208")), Str(AddrLower), Str(Chars("0x1")),
              Undefined, Undefined)

TxPriced == [TxPlain EXCEPT !.gasPrice = Str(Chars("0x77359400")), !.chainId = Num(1),
                            !.nonce = Num(99)]

TxFree == [TxPlain EXCEPT !.gasPrice = BigOf(0)]

TxRequests(t) == IF t = 1 THEN {TxPlain, TxPriced, TxFree} ELSE {TxPlain}

\* What the node answers.
NonceReplies == {RpcError, Ok(Hex0x \o numberToString16(client.count))}

GasPriceReplies == {RpcError, Ok(Chars("0x4a817c800"))}

BroadcastReplies == {RpcError, Ok(TxHash)}

ReceiptOf(blockNumber, status) ==
    [t |-> "object", transactionHash |-> TxHash, blockNumber |-> blockNumber,
     status |-> status]

\* A receipt is null until the transaction is mined; a pending one without
\* block number and a reverted one are answered to direct calls as well.
ReceiptReplies(fn) ==
    {RpcError, Ok(Null), Ok(ReceiptOf(Str(Chars("0x10")), Str(Chars("0x1"))))}
        \cup IF fn = "waitForTransaction"
             THEN {Ok(ReceiptOf(Null, Null)), Ok(ReceiptOf(Num(16), Str(Chars("0x0"))))}
             ELSE {}

BlockReplies == {RpcError, Ok(Chars("0x11")), Ok(Chars("0x12"))}

\* The first poll of waitForTransaction(txHash, confirmations, timeout): the
\* loop is entered unless the timeout is not positive.
timeoutError(local) ==
    Throw("Error", Chars("Transaction ") \o local.txHash \o Chars(" not confirmed within ")
                       \o bigToString(BigNat(local.timeout)) \o Chars("ms"))

pollReceipt(call, local, trace) ==
    InFlight("receipt", call.fn, local,
             trace \o <<Request("eth_getTransactionReceipt", local.txHash)>>)

waitForTransaction(call, trace, txHash, confirmations, timeout) ==
    Bind([txHash |-> txHash, confirmations |-> confirmations, timeout |-> timeout,
          polls |-> 0, seen |-> Undefined, current |-> NaN] @@ call.local,
         LAMBDA local :
             IF 0 < timeout THEN pollReceipt(call, local, trace)
             ELSE Finished([call EXCEPT !.local = local], trace, timeoutError(local)))

\* The locals of a sendTransaction call: tx is the caller's object as it is
\* filled in; request keeps what the caller passed, gasReply what the node
\* answered to eth_gasPrice, signedTx what wallet.signTransaction returned.
sendLocals(tx) == [request |-> tx, tx |-> tx, gasReply |-> Undefined, signedTx |-> <<>>]

\* sendTransaction from wallet.signTransaction(tx) on: a throw ends the call,
\* otherwise the signed transaction is broadcast.
signAndBroadcast(call, tx) ==
    Bind(walletSignTransaction(SenderWallet, tx).result,
         LAMBDA signedTx :
             IF ~signedTx.ok
             THEN Finished([call EXCEPT !.local.tx = tx], call.trace \o <<SignCall(tx)>>, signedTx)
             ELSE InFlight("broadcast", call.fn,
                           [call.local EXCEPT !.tx = tx, !.signedTx = signedTx.val.s],
                           call.trace \o <<SignCall(tx),
                                           Request("eth_sendRawTransaction", signedTx.val.s)>>))

\* sendTransaction were it to keep a chain id of the caller's.
afterNonceKeepChain(call, nonceHex) ==
    Bind([call.local.tx EXCEPT !.nonce = Num(hexToNumber(nonceHex)),
                                !.chainId = orElse(@, Num(client.chainId))],
         LAMBDA tx :
             IF truthy(tx.gasPrice) THEN signAndBroadcast(call, tx)
             ELSE IF truthy(client.gasPrice)
             THEN signAndBroadcast(call, [tx EXCEPT !.gasPrice = client.gasPrice])
             ELSE InFlight("gasPrice", call.fn, [call.local EXCEPT !.tx = tx],
                           call.trace \o <<Request("eth_gasPrice", <<>>)>>))

\* sendTransaction after the nonce has arrived: nonce and chainId are set, a
\* missing gas price is the configured one or is asked of the node.
afterNonce(call, nonceHex) ==
    Bind([call.local.tx EXCEPT !.nonce = Num(hexToNumber(nonceHex)),
                                !.chainId = Num(client.chainId)],
         LAMBDA tx :
             IF truthy(tx.gasPrice) THEN signAndBroadcast(call, tx)
             ELSE IF truthy(client.gasPrice)
             THEN signAndBroadcast(call, [tx EXCEPT !.gasPrice = client.gasPrice])
             ELSE InFlight("gasPrice", call.fn, [call.local EXCEPT !.tx = tx],
                           call.trace \o <<Request("eth_gasPrice", <<>>)>>))

\* receipt && receipt.blockNumber
isMined(receipt) == receipt.t = "object" /\ truthy(receipt.blockNumber)

\* typeof receipt.blockNumber === 'string' ? hexToNumber(...) : receipt.blockNumber
txBlockOf(receipt) ==
    IF receipt.blockNumber.t = "str" THEN hexToNumber(receipt.blockNumber.s)
    ELSE receipt.blockNumber.n

\* The check were the mined block not to count as a confirmation of its own.
isConfirmedFromNext(currentBlock, txBlock, confirmations) ==
    currentBlock # NaN /\ txBlock # NaN /\ currentBlock - txBlock + 2 >= confirmations

\* currentBlock - txBlock + 1 >= confirmations (false for NaN)
isConfirmed(currentBlock, txBlock, confirmations) ==
    currentBlock # NaN /\ txBlock # NaN /\ currentBlock - txBlock + 1 >= confirmations

InitClient ==
    /\ op = [fn |-> "none"]
    /\ out = Ok(Null)
    /\ abi = <<>>
    /\ rpcLog = <<>>
    /\ signLog = <<>>
    /\ outcome = Ok(Null)
    /\ NoWallets
    /\ token = NoToken
    /\ client \in ClientConfigs
    /\ socket = NoSocket

ClientFrame == UNCHANGED <<abi, rpcLog, signLog, outcome, token, socket>> /\ WalletIdle

\* Call t moves on to next after the step whose await was answered by reply,
\* and what it returned or threw is seen.
Moves(t, step, reply, next) ==
    /\ op' = [fn |-> next.fn, t |-> t, step |-> step, reply |-> reply]
    /\ out' = IF next.pc = "done" THEN next.result ELSE Pending
    /\ ClientFrame

\* client.sendTransaction(wallet, tx) is called and awaits the nonce.
SendStart ==
    \E t \in Tasks : \E tx \in TxRequests(t) :
        /\ client.calls[t] = Idle
        /\ LET next == InFlight("nonce", "sendTransaction", sendLocals(tx),
                                <<Request("eth_getTransactionCount",
                                          <<SenderWallet.address, Chars("latest")>>)>>)
           IN  /\ client' = [client EXCEPT !.calls[t] = next]
               /\ Moves(t, "start", Pending, next)

NonceReply ==
    \E t \in {u \in Tasks : client.calls[u].pc = "nonce"} : \E reply \in NonceReplies :
        LET call == client.calls[t]
            next == IF ~reply.ok THEN Finished(call, call.trace, reply)
                    ELSE afterNonce(call, reply.val)
        IN  /\ client' = [client EXCEPT !.calls[t] = next]
            /\ Moves(t, "nonce", reply, next)

\* _getGasPrice's await: the node's price, or the default when the query fails.
GasPriceReply ==
    \E t \in {u \in Tasks : client.calls[u].pc = "gasPrice"} : \E reply \in GasPriceReplies :
        LET call == client.calls[t]
            next == signAndBroadcast([call EXCEPT !.local.gasReply = reply],
                        [call.local.tx EXCEPT !.gasPrice =
                             Str(IF reply.ok THEN reply.val ELSE DefaultGasPrice)])
        IN  /\ client' = [client EXCEPT !.calls[t] = next]
            /\ Moves(t, "gasPrice", reply, next)

\* The node accepts the raw transaction (and counts it) or rejects it; an
\* accepted one is waited for with the default arguments.
BroadcastReply ==
    \E t \in {u \in Tasks : client.calls[u].pc = "broadcast"} : \E reply \in BroadcastReplies :
        LET call == client.calls[t]
            next == IF ~reply.ok THEN Finished(call, call.trace, reply)
                    ELSE waitForTransaction(call, call.trace, reply.val, 1, 60000)
        IN  /\ client' = [client EXCEPT !.calls[t] = next,
                                        !.count = IF reply.ok THEN @ + 1 ELSE @]
            /\ Moves(t, "broadcast", reply, next)

\* rpc.waitForTransaction(txHash, confirmations, timeout) called directly.
WaitStart ==
    \E t \in Tasks : \E confirmations \in {1, 3} : \E timeout \in {0, 2000} :
        /\ client.calls[t] = Idle
        /\ LET next == waitForTransaction(InFlight("idle", "waitForTransaction", <<>>, <<>>),
                                          <<>>, TxHash, confirmations, timeout)
           IN  /\ client' = [client EXCEPT !.calls[t] = next]
               /\ Moves(t, "start", Pending, next)

\* The receipt poll is answered: a mined receipt is returned, or checked
\* against the current block when confirmations > 1; otherwise the call sleeps.
ReceiptReply ==
    \E t \in {u \in Tasks : client.calls[u].pc = "receipt"} :
    \E reply \in ReceiptReplies(client.calls[t].fn) :
        LET call == client.calls[t]
            seen == [call EXCEPT !.local.seen = reply.val]
            next == IF ~reply.ok THEN Finished(call, call.trace, reply)
                    ELSE IF ~isMined(reply.val) THEN [seen EXCEPT !.pc = "sleep"]
                    ELSE IF call.local.confirmations <= 1
                    THEN Finished(seen, call.trace, reply)
                    ELSE [seen EXCEPT !.pc = "block",
                                      !.trace = @ \o <<Request("eth_blockNumber", <<>>)>>]
        IN  /\ client' = [client EXCEPT !.calls[t] = next]
            /\ Moves(t, "receipt", reply, next)

BlockReply ==
    \E t \in {u \in Tasks : client.calls[u].pc = "block"} : \E reply \in BlockReplies :
        LET call == client.calls[t]
            seen == [call EXCEPT !.local.current = hexToNumber(reply.val)]
            next == IF ~reply.ok THEN Finished(call, call.trace, reply)
                    ELSE IF isConfirmed(hexToNumber(reply.val), txBlockOf(call.local.seen),
                                        call.local.confirmations)
                    THEN Finished(seen, call.trace, Ok(call.local.seen))
                    ELSE [seen EXCEPT !.pc = "sleep"]
        IN  /\ client' = [client EXCEPT !.calls[t] = next]
            /\ Moves(t, "block", reply, next)

\* sleep(1000) is over and the loop condition is read: at least a second per
\* poll has passed, and the awaits may have taken any time more.
WakeUp ==
    \E t \in {u \in Tasks : client.calls[u].pc = "sleep"} : \E late \in BOOLEAN :
        LET call == client.calls[t]
            local == [call.local EXCEPT !.polls = @ + 1]
            next == IF late THEN Finished([call EXCEPT !.local = local], call.trace,
                                          timeoutError(local))
                    ELSE pollReceipt(call, local, call.trace)
        IN  /\ (local.polls * 1000 >= local.timeout \/ local.polls >= MaxPolls) => late
            /\ client' = [client EXCEPT !.calls[t] = next]
            /\ Moves(t, "wake", Pending, next)

NextClient ==
    \/ SendStart
    \/ NonceReply
    \/ GasPriceReply
    \/ BroadcastReply
    \/ ReceiptReply
    \/ WakeUp

SpecClient == InitClient /\ [][NextClient]_vars

\* waitForTransaction alone, called directly by one or two tasks.
NextWait ==
    \/ WaitStart
    \/ ReceiptReply
    \/ BlockReply
    \/ WakeUp

SpecWait == InitClient /\ [][NextWait]_vars

(***************************************************************************)
(* Wallet.toRlpNumber alone and as signTransaction applies it to the       *)
(* numeric fields of a request, over the forms a value is supplied in.     *)
(***************************************************************************)
RlpValues == {0, 1, 9, 127, 128, 255, 256, 1000, 21000, 65535, 65536, 1000000000}

RlpForms == {"number", "bigint", "decimal", "hex", "hexPadded"}

\* The value n as a caller writes it.
InForm(n, form) ==
    CASE form = "number" -> Num(n)
      [] form = "bigint" -> BigOf(n)
      [] form = "decimal" -> Str(bigToString(BigNat(n)))
      [] form = "hex" -> Str(Hex0x \o numberToString16(n))
      [] form = "hexPadded" -> Str(Hex0x \o <<"0">> \o numberToString16(n))

NumericFields == {"nonce", "gasPrice", "gasLimit", "value"}

\* The place of a field in rawTx.
FieldIndex(field) ==
    CASE field = "nonce" -> 1
      [] field = "gasPrice" -> 2
      [] field = "gasLimit" -> 3
      [] field = "value" -> 5

EmptyTx == Tx(Undefined, Undefined, Undefined, Undefined, Undefined, Undefined, Undefined)

\* signTransaction's conversion of one field of the request.
serializeField(field, value) == txFields([EmptyTx EXCEPT ![field] = value])[FieldIndex(field)]

InitRlp ==
    /\ op = [fn |-> "none"]
    /\ out = Ok(Null)
    /\ abi = <<>>
    /\ rpcLog = <<>>
    /\ signLog = <<>>
    /\ outcome = Ok(Null)
    /\ NoWallets
    /\ NoClients

RlpFrame == UNCHANGED <<abi, rpcLog, signLog, outcome, token, client, socket>> /\ WalletIdle

\* wallet.toRlpNumber(value)
ToRlpNumberOp ==
    \E n \in RlpValues : \E form \in RlpForms :
        /\ op' = [fn |-> "toRlpNumber", n |-> n, form |-> form]
        /\ out' = toRlpNumber(InForm(n, form))
        /\ RlpFrame

\* The field of a request as wallet.signTransaction serializes it.
SerializeFieldOp ==
    \E n \in RlpValues : \E form \in RlpForms : \E field \in NumericFields :
        /\ op' = [fn |-> "serializeField", field |-> field, n |-> n, form |-> form]
        /\ out' = serializeField(field, InForm(n, form))
        /\ RlpFrame

NextRlp ==
    \/ ToRlpNumberOp
    \/ SerializeFieldOp

SpecRlp == InitRlp /\ [][NextRlp]_vars

(***************************************************************************)
(* WSClient: the sockets it has created, the reconnection timers, and the  *)
(* promises of send.  A socket that has closed is kept only while this.ws  *)
(* still refers to it; timers fire in any order.                           *)
(***************************************************************************)
maxReconnectAttempts == 5

reconnectDelay == 1000

\* The bounds on sockets alive at once and on send calls.
MaxLive == 2

MaxRequests == 2

SocketSlots == 1..MaxLive

\* new WSClient(url); stopped and scheduled remember that disconnect() has
\* been called and how many reconnections were scheduled.
newSocket ==
    [kind |-> "ws", ws |-> 0, readyState |-> [s \in SocketSlots |-> "none"],
     autoReconnect |-> TRUE, reconnectAttempts |-> 0, timers |-> <<>>, requestId |-> 0,
     pendingRequests |-> {}, timeouts |-> {}, promises |-> <<>>, stopped |-> FALSE]

\* The slots for a new socket: the closed socket of this.ws gives way.
FreeSlots(c) ==
    {s \in SocketSlots : c.readyState[s] = "none" \/ (s = c.ws /\ c.readyState[s] = "closed")}

\* this.ws = new WebSocket(url): the socket this.ws referred to is dropped
\* when it had closed.
connect(c) ==
    LET s == CHOOSE f \in FreeSlots(c) : \A g \in FreeSlots(c) : f <= g
    IN  [c EXCEPT !.ws = s,
                  !.readyState = [x \in SocketSlots |->
                                     IF x = s THEN "connecting"
                                     ELSE IF x = c.ws /\ @[x] = "closed" THEN "none"
                                     ELSE @[x]]]

\* handleDisconnect were it not to look at autoReconnect.
handleDisconnectAlways(c) ==
    IF c.reconnectAttempts < maxReconnectAttempts
    THEN [c EXCEPT !.reconnectAttempts = @ + 1,
                   !.timers = @ \o <<reconnectDelay * 2^(c.reconnectAttempts + 1 - 1)>>]
    ELSE c

\* WSClient.handleDisconnect
handleDisconnect(c) ==
    IF ~c.autoReconnect THEN c
    ELSE IF c.reconnectAttempts < maxReconnectAttempts
    THEN [c EXCEPT !.reconnectAttempts = @ + 1,
                   !.timers = @ \o <<reconnectDelay * 2^(c.reconnectAttempts + 1 - 1)>>]
    ELSE c

\* ws.onclose of socket s
onclose(c, s) ==
    handleDisconnect([c EXCEPT !.readyState[s] = IF c.ws = s THEN "closed" ELSE "none"])

\* The promise of the request id is resolved or rejected once more.
settle(c, id, state, reason) ==
    [c EXCEPT !.promises = [i \in 1..Len(@) |->
                               IF @[i].id = id
                               THEN [@[i] EXCEPT !.state = state, !.reason = reason,
                                                 !.calls = @ + 1]
                               ELSE @[i]]]

\* WSClient.send
send(c) ==
    IF c.ws = 0 \/ c.readyState[c.ws] # "open"
    THEN [c EXCEPT !.promises = @ \o <<[id |-> 0, state |-> "rejected",
                                        reason |-> "WebSocket not connected", calls |-> 1]>>]
    ELSE [c EXCEPT !.requestId = @ + 1,
                   !.pendingRequests = @ \cup {c.requestId + 1},
                   !.timeouts = @ \cup {c.requestId + 1},
                   !.promises = @ \o <<[id |-> c.requestId + 1, state |-> "pending",
                                        reason |-> "", calls |-> 0]>>]

\* WSClient.handleMessage for a response with this id
handleMessage(c, id, isError) ==
    IF id \in c.pendingRequests
    THEN settle([c EXCEPT !.pendingRequests = @ \ {id}], id,
                IF isError THEN "rejected" ELSE "resolved",
                IF isError THEN "RPC Error" ELSE "")
    ELSE c

\* The callback of send's setTimeout
requestTimeout(c, id) ==
    IF id \in c.pendingRequests
    THEN settle([c EXCEPT !.pendingRequests = @ \ {id}, !.timeouts = @ \ {id}], id,
                "rejected", "Request timeout")
    ELSE [c EXCEPT !.timeouts = @ \ {id}]

\* WSClient.disconnect
disconnect(c) ==
    [c EXCEPT !.autoReconnect = FALSE,
              !.stopped = TRUE,
              !.readyState = IF c.ws = 0 THEN @
                             ELSE [@ EXCEPT ![c.ws] = IF @ \in {"connecting", "open"}
                                                     THEN "closing" ELSE "none"],
              !.ws = 0,
              !.pendingRequests = {}]

InitSocket ==
    /\ op = [fn |-> "none"]
    /\ out = Ok(Null)
    /\ abi = <<>>
    /\ rpcLog = <<>>
    /\ signLog = <<>>
    /\ outcome = Ok(Null)
    /\ NoWallets
    /\ token = NoToken
    /\ client = NoClient
    /\ socket = newSocket

SocketFrame ==
    /\ out' = Pending
    /\ UNCHANGED <<abi, rpcLog, signLog, outcome, token, client>>
    /\ WalletIdle

\* client.connect() is called (a slot is left for each timer).
Connect ==
    /\ Cardinality(FreeSlots(socket)) > Len(socket.timers)
    /\ socket' = connect(socket)
    /\ op' = [fn |-> "connect"]
    /\ SocketFrame

\* ws.onopen
SocketOpens ==
    \E s \in SocketSlots :
        /\ socket.readyState[s] = "connecting"
        /\ socket' = [socket EXCEPT !.readyState[s] = "open", !.reconnectAttempts = 0]
        /\ op' = [fn |-> "onopen"]
        /\ SocketFrame

\* The connection fails, is lost, or its close() is completed: ws.onclose.
SocketCloses ==
    \E s \in SocketSlots :
        /\ socket.readyState[s] \in {"connecting", "open", "closing"}
        /\ socket' = onclose(socket, s)
        /\ op' = [fn |-> "onclose"]
        /\ SocketFrame

\* client.disconnect() is called.
Disconnect ==
    /\ socket' = disconnect(socket)
    /\ op' = [fn |-> "disconnect"]
    /\ SocketFrame

\* A reconnection timer fires.
Reconnect ==
    \E i \in 1..Len(socket.timers) :
        /\ FreeSlots(socket) # {}
        /\ socket' = connect([socket EXCEPT !.timers = SubSeq(@, 1, i - 1)
                                                          \o SubSeq(@, i + 1, Len(@))])
        /\ op' = [fn |-> "reconnect"]
        /\ SocketFrame

\* this.send(method, params) is called.
SendRequest ==
    /\ Len(socket.promises) < MaxRequests
    /\ socket' = send(socket)
    /\ op' = [fn |-> "send"]
    /\ SocketFrame

\* ws.onmessage: a response arrives on a socket, for any id sent so far,
\* once or again.
SocketMessage ==
    \E id \in 1..socket.requestId : \E isError \in BOOLEAN :
        /\ \E s \in SocketSlots : socket.readyState[s] \in {"open", "closing"}
        /\ socket' = handleMessage(socket, id, isError)
        /\ op' = [fn |-> "onmessage"]
        /\ SocketFrame

\* The 30 seconds of a request are over.
RequestTimeout ==
    \E id \in socket.timeouts :
        /\ socket' = requestTimeout(socket, id)
        /\ op' = [fn |-> "timeout"]
        /\ SocketFrame

NextSocket ==
    \/ Connect
    \/ SocketOpens
    \/ SocketCloses
    \/ Disconnect
    \/ Reconnect
    \/ SendRequest
    \/ SocketMessage
    \/ RequestTimeout

SpecSocket == InitSocket /\ [][NextSocket]_vars

\* Every setTimeout callback runs in the end.
SpecSocketFair == SpecSocket /\ WF_vars(RequestTimeout)

\* Connections and reconnections alone.
NextReconnect ==
    \/ Connect
    \/ SocketOpens
    \/ SocketCloses
    \/ Disconnect
    \/ Reconnect

SpecReconnect == InitSocket /\ [][NextReconnect]_vars

(***************************************************************************)
(* contract.methods: the ContractMethod objects the constructor builds,    *)
(* one per function name, on a contract whose ABI may declare a name       *)
(* twice.  A method is encoded and then called with the same arguments.    *)
(***************************************************************************)
FnTransferAll == AbiItem("function", "transfer", <<Param("to", "address", FALSE)>>, <<>>)

AbiOverloaded == <<FnTransfer, FnBalanceOf, FnTransferAll>>

MethodAbis == {Abi1, Abi2, AbiOverloaded}

\* The names of contract.methods.
MethodNames(abiItems) == {n \in Names : registryEntry(abiItems, "function", n) # 0}

\* this.abiItem of methods[name]
methodAbiItem(abiItems, name) == abiItems[registryEntry(abiItems, "function", name)]

\* ContractMethod.encodeABI
methodEncodeABI(abiItems, name, args) == encodeCall(methodAbiItem(abiItems, name), args)

\* ContractMethod.call
methodCall(abiItems, name, args, reply) ==
    contractCall(abiItems, methodAbiItem(abiItems, name).name, args, reply)

\* ContractMethod.send
methodSend(abiItems, name, args, node) ==
    contractSend(abiItems, methodAbiItem(abiItems, name).name, args, node)

\* ContractMethod.estimateGas
methodEstimateGas(abiItems, name, args, reply) ==
    contractEstimateGas(abiItems, methodAbiItem(abiItems, name).name, args, reply)

InitMethods ==
    /\ op = [fn |-> "none", n |-> 0]
    /\ out = Ok(Null)
    /\ abi \in MethodAbis
    /\ rpcLog = <<>>
    /\ signLog = <<>>
    /\ outcome = Ok(Null)
    /\ NoWallets
    /\ NoClients

\* contract.methods[name].encodeABI(...args)
MethodEncodeABI ==
    /\ op.n < MaxOps
    /\ \E name \in MethodNames(abi) : \E args \in CallArgLists :
          /\ op' = [fn |-> "encodeABI", name |-> name, args |-> args, n |-> op.n + 1]
          /\ out' = methodEncodeABI(abi, name, args)
    /\ UNCHANGED <<abi, rpcLog, signLog, outcome>>
    /\ WalletIdle
    /\ ClientsIdle

\* contract.methods[name].call(...args) with the arguments just encoded.
MethodCall ==
    /\ op.fn = "encodeABI"
    /\ \E reply \in CallReplies :
          /\ op' = [op EXCEPT !.fn = "methods.call"]
          /\ Apply(methodCall(abi, op.name, op.args, reply))

\* contract.methods[name].send(wallet, {}, ...args) likewise.
MethodSend ==
    /\ op.fn = "encodeABI"
    /\ \E node \in Nodes :
          /\ op' = [op EXCEPT !.fn = "methods.send"]
          /\ Apply(methodSend(abi, op.name, op.args, node))

\* contract.methods[name].estimateGas(...args) likewise.
MethodEstimateGas ==
    /\ op.fn = "encodeABI"
    /\ \E reply \in GasReplies :
          /\ op' = [op EXCEPT !.fn = "methods.estimateGas"]
          /\ Apply(methodEstimateGas(abi, op.name, op.args, reply))

NextMethods ==
    \/ MethodEncodeABI
    \/ MethodCall
    \/ MethodSend
    \/ MethodEstimateGas

SpecMethods == InitMethods /\ [][NextMethods]_vars

(***************************************************************************)
(* Properties.  What a property expects is written out here from the ABI   *)
(* rules, not taken from the operators above.                              *)
(***************************************************************************)
TypeString == Chars("string")

TypeBytes == Chars("bytes")

IntTypes == {Chars(t) : t \in {"int256", "int16", "int8", "int"}}

UintTypes == {Chars(t) : t \in {"uint256", "uint8", "uint"}}

StaticTypes == SupportedTypes \ {TypeString, TypeBytes}

BitsOf(type) ==
    IF type \in {Chars("uint8"), Chars("int8")} THEN 8
    ELSE IF type = Chars("int16") THEN 16
    ELSE 256

InRange(type, v) ==
    IF type \in UintTypes THEN ~v.neg /\ BigCmp(v, BigPow2(BitsOf(type))) < 0
    ELSE /\ BigCmp(v, BigPow2(BitsOf(type) - 1)) < 0
         /\ BigCmp(v, BigNeg(BigPow2(BitsOf(type) - 1))) >= 0

IsLowerHex(s) == \A k \in 1..Len(s) : \E d \in 0..15 : s[k] = HexChar(d)

\* The values a caller may pass for a declared type.
IsValidValue(type, value) ==
    IF type = Chars("address") THEN value \in Addresses
    ELSE IF type \in UintTypes \cup IntTypes THEN value.t = "big" /\ InRange(type, value)
    ELSE IF type = Chars("bool") THEN value.t = "bool"
    ELSE IF type = Chars("bytes32") THEN value.t = "str" /\ Len(value.s) <= 66
    ELSE IF type = TypeString THEN value.t = "str"
    ELSE IF type = TypeBytes
    THEN value.t = "str" /\ Len(value.s) % 2 = 0 /\ IsLowerHex(SubSeq(value.s, 3, Len(value.s)))
    ELSE FALSE

LeftPadded(hex) == Repeat("0", 64 - Len(hex)) \o hex

HexOfNat(x) == Tup([k \in 1..Len(x.mag) |-> HexChar(x.mag[k])])

LowerAddress(a) == IF a = AddrChecksum THEN AddrLower ELSE a

\* The one word a value of a static type is encoded as.
ExpectedWord(type, value) ==
    IF type = Chars("address") THEN LeftPadded(SubSeq(LowerAddress(value.s), 3, 42))
    ELSE IF type = Chars("bool") THEN LeftPadded(IF value.b THEN <<"1">> ELSE <<>>)
    ELSE IF type = Chars("bytes32")
    THEN SubSeq(value.s, 3, Len(value.s)) \o Repeat("0", 66 - Len(value.s))
    ELSE LeftPadded(HexOfNat(IF value.neg THEN BigAdd(BigPow2(256), value) ELSE value))

Utf8Hex(c) ==
    IF c = "a" THEN Chars("61") ELSE IF c = "U+00e9" THEN Chars("c3a9") ELSE Chars("e282ac")

RECURSIVE Utf8HexOf(_, _)
Utf8HexOf(text, n) == IF n = 0 THEN <<>> ELSE Utf8HexOf(text, n - 1) \o Utf8Hex(text[n])

\* Length word and zero-padded content of a dynamic value.
ExpectedDynamic(contentHex) ==
    LeftPadded(HexOfNat(BigNat(Len(contentHex) \div 2))) \o contentHex
        \o Repeat("0", ((Len(contentHex) + 63) \div 64) * 64 - Len(contentHex))

\* C1: for every supported type T and valid value v, decodeParameter(T,
\* encodeParameter(T, v)) returns v (the encoding handed on without its 0x,
\* as decodeArguments hands data on).
C1_RoundTrip ==
    (op.fn = "roundTrip" /\ ~op.raw /\ op.type \in SupportedTypes
        /\ IsValidValue(op.type, op.value))
    => (out.ok /\ out.val = op.value)

\* C2: for every static type and valid value, encodeParameter returns 0x and
\* exactly one 64-character word: address lower-cased and left-padded, uint,
\* non-negative int and bool left-padded, negative int v as 2^256 + v, bytes32
\* right-padded; uint256 0 is 64 zeros and int8 -1 is 64 f.
C2_StaticWord ==
    (op.fn = "encodeParameter" /\ op.type \in StaticTypes /\ IsValidValue(op.type, op.value))
    => /\ out.ok
       /\ Len(out.val) = 66
       /\ out.val = Hex0x \o ExpectedWord(op.type, op.value)
       /\ (op.type = Chars("uint256") /\ op.value.mag = <<>>)
             => out.val = Hex0x \o Repeat("0", 64)
       /\ (op.type = Chars("int8") /\ op.value.neg /\ op.value.mag = <<1>>)
             => out.val = Hex0x \o Repeat("f", 64)

C2_Witness ==
    /\ op.fn = "encodeParameter"
    /\ op.type = Chars("int8")
    /\ op.value.t = "big" /\ op.value.neg /\ op.value.mag = <<1>>
    /\ out.ok
    /\ out.val = Hex0x \o Repeat("f", 64)

\* C3: for every intN and v in the range of intN, decoding as intN the word
\* encodeParameter(intN, v) produced yields v, and the decoded value lies in
\* the range of intN.
C3_SignedRoundTrip ==
    (op.fn = "roundTrip" /\ ~op.raw /\ op.type \in IntTypes /\ IsValidValue(op.type, op.value))
    => (out.ok /\ InRange(op.type, out.val) /\ out.val = op.value)

\* C4: for every type string outside the supported set, encodeParameter and
\* decodeParameter both fail with an unsupported-type error naming the type.
C4_UnsupportedFails ==
    (op.fn \in {"encodeParameter", "decodeParameter"} /\ op.type \in OtherTypes)
    => (~out.ok /\ out.msg = Chars("Unsupported type: ") \o op.type)

AllStatic(inputs) == \A k \in 1..Len(inputs) : inputs[k].type \in StaticTypes

\* C5: calldata of encodeCall and encodeABI is the entry's selector followed by
\* the encodings of the arguments in declaration order; with n static
\* parameters the i-th word after the selector encodes argument i with the
\* i-th declared type and the calldata is 4 + 32n bytes.
C5_Calldata ==
    (op.fn \in {"encodeCall", "encodeABI"} /\ AllStatic(op.abiItem.inputs)
        /\ Len(op.args) = Len(op.abiItem.inputs))
    => /\ out.ok
       /\ Len(out.val) = 2 + 2 * (4 + 32 * Len(op.args))
       /\ SubSeq(out.val, 1, 10) = functionSelector(op.abiItem)
       /\ \A k \in 1..Len(op.args) :
             SubSeq(out.val, 11 + 64 * (k - 1), 10 + 64 * k)
                 = ExpectedWord(op.abiItem.inputs[k].type, op.args[k])

C5_Witness ==
    /\ op.fn = "encodeABI"
    /\ op.abiItem = FnTransfer
    /\ Len(op.args) = 2
    /\ out.ok
    /\ Len(out.val) = 138
    /\ SubSeq(out.val, 1, 10) = Chars("0xa9059cbb")

RECURSIVE CommaTypes(_, _)
CommaTypes(inputs, n) ==
    IF n = 0 THEN <<>>
    ELSE IF n = 1 THEN inputs[1].type
    ELSE CommaTypes(inputs, n - 1) \o <<",">> \o inputs[n].type

\* name(type1,...,typeN): types only, comma-separated, no names, no spaces.
CanonicalSignature(abiItem) ==
    abiItem.name \o <<"(">> \o CommaTypes(abiItem.inputs, Len(abiItem.inputs)) \o <<")">>

\* C6: the selector is 0x and the first 4 bytes of the hash of the canonical
\* signature, the topic 0x and the full 32-byte hash; so the selector is the
\* first 4 bytes of the topic, and Contract.functionSelector(abiItem) equals
\* utils.functionSelector of abiItem's canonical signature.
C6_SelectorAndTopic ==
    /\ op.fn = "functionSelector"
          => Bind(keccak256(CanonicalSignature(op.abiItem)),
                  LAMBDA hash :
                      /\ Len(hash) = 64
                      /\ out.val = Hex0x \o SubSeq(hash, 1, 8)
                      /\ out.val = utils_functionSelector(CanonicalSignature(op.abiItem))
                      /\ out.val = SubSeq(utils_eventTopic(CanonicalSignature(op.abiItem)), 1, 10)
                      /\ (op.abiItem = FnTransfer => out.val = Chars("0xa9059cbb")))
    /\ op.fn = "EventDecoder"
          => /\ Len(out.val) = 66
             /\ out.val = utils_eventTopic(CanonicalSignature(op.abiItem))
             /\ SubSeq(out.val, 1, 10) = functionSelector(op.abiItem)

C6_Witness ==
    /\ op.fn = "functionSelector"
    /\ op.abiItem = FnTransfer
    /\ out.val = Chars("0xa9059cbb")

C8_DynamicDecode ==
    op.fn = "decodeArguments"
    => /\ out.ok
       /\ Len(out.val) = Len(op.outputs)
       /\ \A k \in 1..Len(op.outputs) :
             IF op.outputs[k].type = Chars("uint256")
             THEN Hex0x \o LeftPadded(HexOfNat(out.val[k])) = Hex0x \o op.word
             ELSE IF op.outputs[k].type = TypeString
             THEN out.val[k] = Str(op.text)
             ELSE out.val[k] = Str(Hex0x \o Utf8HexOf(op.text, Len(op.text)))

IndexedInputs(abiItem) == SelectSeq(abiItem.inputs, LAMBDA p : p.indexed)

DataInputs(abiItem) == SelectSeq(abiItem.inputs, LAMBDA p : ~p.indexed)

\* The log's data holds a word for every non-indexed input.
EnoughData(abiItem, log) == Len(log.data) >= 2 + 64 * Len(DataInputs(abiItem))

\* args holds the first topicsUsed indexed inputs, each decoded from the topic
\* one past its position, and every non-indexed input, each decoded from the
\* data word of its position.
FromTopicsAndData(abiItem, log, args, topicsUsed) ==
    /\ \A k \in 1..topicsUsed :
          /\ IndexedInputs(abiItem)[k].name \in DOMAIN args
          /\ args[IndexedInputs(abiItem)[k].name]
                = decodeParameter(IndexedInputs(abiItem)[k].type,
                                  SubSeq(log.topics[k + 1], 3, 66), 0).val
    /\ \A j \in 1..Len(DataInputs(abiItem)) :
          /\ DataInputs(abiItem)[j].name \in DOMAIN args
          /\ args[DataInputs(abiItem)[j].name]
                = decodeParameter(DataInputs(abiItem)[j].type,
                                  SubSeq(log.data, 3 + 64 * (j - 1), 2 + 64 * j), 0).val

PaddedAddr == Hex0x \o Repeat("0", 24) \o SubSeq(AddrLower, 3, 42)

TransferExample ==
    (op.abiItem = EvTransfer /\ op.log.topics = <<Hash32, PaddedAddr, PaddedAddr>>
        /\ op.log.data = Hex0x \o Repeat("0", 61) \o Chars("3e8"))
    => /\ DOMAIN out.val.args = {Chars("from"), Chars("to"), Chars("value")}
       /\ out.val.args[Chars("from")] = Str(AddrLower)
       /\ out.val.args[Chars("to")] = Str(AddrLower)
       /\ out.val.args[Chars("value")] = BigOf(1000)

\* C9 as stated: decode maps the i-th indexed input from topics[i+1] and the
\* j-th non-indexed input from the j-th data word, and every declared input
\* name appears in args.
C9_EveryInputDecoded ==
    (op.fn = "decode" /\ EnoughData(op.abiItem, op.log))
    => /\ out.ok
       /\ FromTopicsAndData(op.abiItem, op.log, out.val.args, Len(IndexedInputs(op.abiItem)))

\* C9 amended: decode maps the i-th indexed input from topics[i+1] when the log
\* has that topic and leaves it out of args otherwise; the j-th non-indexed
\* input is decoded from the j-th data word; topic 0 is never a value; the
\* Transfer example yields {from, to, value}.
C9_DecodePositional ==
    (op.fn = "decode" /\ EnoughData(op.abiItem, op.log))
    => /\ out.ok
       /\ out.val.event = op.abiItem.name
       /\ FromTopicsAndData(op.abiItem, op.log, out.val.args,
                            Min(Len(IndexedInputs(op.abiItem)), Len(op.log.topics) - 1))
       /\ Cardinality(DOMAIN out.val.args)
             = Len(DataInputs(op.abiItem))
                  + Min(Len(IndexedInputs(op.abiItem)), Len(op.log.topics) - 1)
       /\ TransferExample

C9_Witness ==
    /\ op.fn = "decode"
    /\ op.abiItem = EvTransfer721
    /\ op.log.topics = <<Hash32, PaddedAddr, PaddedAddr>>
    /\ EnoughData(op.abiItem, op.log)
    /\ out.ok
    /\ DOMAIN out.val.args = {Chars("from"), Chars("to")}

NoEntry(abiItems, type, name) ==
    \A k \in 1..Len(abiItems) : abiItems[k].type # type \/ abiItems[k].name # name

EntryType(fn) == IF fn = "getPastEvents" THEN "event" ELSE "function"

NotFoundMessage(fn, name) ==
    Chars(IF fn = "getPastEvents" THEN "Event " ELSE "Method ") \o name \o Chars(" not found in ABI")

\* C10: call, send and estimateGas given a name with no function entry of that
\* exact name (an event of that name does not count), and getPastEvents given a
\* name with no event entry, fail with a not-found error before any RPC
\* request is issued and before anything is signed.
C10_NotFoundBeforeRpc ==
    [][(op'.n = op.n + 1 /\ NoEntry(abi, EntryType(op'.fn), op'.name))
          => /\ ~outcome'.ok
             /\ outcome'.msg = NotFoundMessage(op'.fn, op'.name)
             /\ rpcLog' = rpcLog
             /\ signLog' = signLog]_vars

C10_Witness ==
    /\ op.fn = "send"
    /\ op.name = Chars("Transfer")
    /\ abi = Abi1
    /\ ~outcome.ok
    /\ outcome.msg = Chars("Method Transfer not found in ABI")
    /\ rpcLog = <<>>
    /\ signLog = <<>>

\* The event entry getPastEvents looks up: the first of that name.
EventEntry(abiItems, name) ==
    abiItems[CHOOSE k \in 1..Len(abiItems) :
                /\ abiItems[k].type = "event" /\ abiItems[k].name = name
                /\ \A j \in 1..(k - 1) : abiItems[j].type # "event" \/ abiItems[j].name # name]

\* The request of the one operation done so far is a log query.
LogQueried ==
    /\ op.fn = "getPastEvents"
    /\ op.n = 1
    /\ Len(rpcLog) = 1
    /\ rpcLog[1].method = "eth_getLogs"

\* C11: the topic filter of getPastEvents (called with a filter) has the event
\* topic at position 0 followed by exactly one slot per indexed parameter in
\* declaration order; the slot of a parameter named in the filter holds the
\* ABI-encoded 32-byte word of the filter value, every other slot is null, and
\* non-indexed parameters produce no slot.
C11_TopicFilter ==
    (LogQueried /\ op.filter.t = "object")
    => Bind(IndexedInputs(EventEntry(abi, op.name)),
            LAMBDA indexed :
       Bind(rpcLog[1].arg.topics,
            LAMBDA topics :
                /\ Len(topics) = 1 + Len(indexed)
                /\ topics[1] = Str(utils_eventTopic(CanonicalSignature(EventEntry(abi, op.name))))
                /\ \A k \in 1..Len(indexed) :
                      IF indexed[k].name \in DOMAIN op.filter.f
                      THEN /\ topics[k + 1].t = "str"
                           /\ Len(topics[k + 1].s) = 66
                           /\ indexed[k].type \in StaticTypes
                                 => topics[k + 1].s
                                       = Hex0x \o ExpectedWord(indexed[k].type,
                                                               op.filter.f[indexed[k].name])
                      ELSE topics[k + 1] = Null))

(***************************************************************************)
(* Signed transactions read back: the items of an RLP list of byte         *)
(* strings, and the number a byte string spells.                           *)
(***************************************************************************)
RECURSIVE BytesToNat(_)
BytesToNat(bs) ==
    IF bs = <<>> THEN 0
    ELSE BytesToNat(SubSeq(bs, 1, Len(bs) - 1)) * 256 + bs[Len(bs)]

RECURSIVE RlpItemsFrom(_, _)
RlpItemsFrom(bs, p) ==
    IF p > Len(bs) THEN <<>>
    ELSE IF bs[p] < 128 THEN <<<<bs[p]>>>> \o RlpItemsFrom(bs, p + 1)
    ELSE IF bs[p] <= 183
    THEN <<SubSeq(bs, p + 1, p + bs[p] - 128)>> \o RlpItemsFrom(bs, p + 1 + bs[p] - 128)
    ELSE Bind(p + bs[p] - 183 + BytesToNat(SubSeq(bs, p + 1, p + bs[p] - 183)),
              LAMBDA last :
                  <<SubSeq(bs, p + bs[p] - 183 + 1, last)>> \o RlpItemsFrom(bs, last + 1))

\* The list header: 0xc0 + length below 56 bytes, else 0xf7 + the length of
\* the length and then the length.
RlpHeaderLen(bs) == IF bs[1] <= 247 THEN 1 ELSE 1 + bs[1] - 247

RlpIsList(bs) ==
    /\ Len(bs) >= 1
    /\ bs[1] >= 192
    /\ Len(bs) - RlpHeaderLen(bs) =
          (IF bs[1] <= 247 THEN bs[1] - 192 ELSE BytesToNat(SubSeq(bs, 2, RlpHeaderLen(bs))))
    /\ (bs[1] > 247 => Len(bs) - RlpHeaderLen(bs) >= 56)

RlpItems(bs) == RlpItemsFrom(bs, RlpHeaderLen(bs) + 1)

SignedTx == op.fn = "signTransaction" /\ out.ok

RawItems == RlpItems(hexToBytes(out.val.s))

PreimageItems == RlpItems(libLog[1].input)

\* The chain id of the request, 1337 when the request has none.
RequestChainId == IF op.args.chainId = Undefined THEN 1337 ELSE op.args.chainId.n

\* C12: in every signed transaction v = recoveryId + chainId * 2 + 35 with
\* recoveryId 0 or 1, chainId being the chain id of the request (1337 when
\* the request has none) and the chain id placed in the signed preimage; for
\* chain id 7770, v is 15575 or 15576.
C12_VField ==
    SignedTx =>
        Bind(BytesToNat(RawItems[7]),
             LAMBDA v :
                 /\ libLog[2].recid \in {0, 1}
                 /\ v = libLog[2].recid + RequestChainId * 2 + 35
                 /\ BytesToNat(PreimageItems[7]) = RequestChainId
                 /\ (RequestChainId = 7770 => v \in {15575, 15576}))

\* The same for requests whose chain id is not zero.
C12_VFieldNonZero == (SignedTx /\ op.args.chainId # Num(0)) => C12_VField

C12_SignedFor7770 == SignedTx /\ op.args.chainId = Num(7770) /\ BytesToNat(RawItems[7]) = 15576

\* The item a quantity field of the request must be: the big-endian bytes of
\* the number, without leading zero, none for zero; the default when absent.
IsQuantity(item, x, default) ==
    /\ (item # <<>> => item[1] # 0)
    /\ (x = Undefined => BytesToNat(item) = default)
    /\ (x.t = "num" => BytesToNat(item) = x.n)

\* The item a byte field of the request must be: empty when the field is
\* absent or null, else the bytes its hexadecimal text spells.
IsBytes(item, x) ==
    IF x \in {Undefined, Null} THEN item = <<>>
    ELSE Len(item) * 2 = Len(x.s) - 2 /\ bytesToHex(item) = toLowerCase(x.s)

\* C13: signTransaction signs the hash of the RLP encoding of [nonce,
\* gasPrice, gasLimit, to, value, data, chainId, 0, 0] and returns '0x' and the
\* RLP encoding of [nonce, gasPrice, gasLimit, to, value, data, v, r, s]; the
\* first six items of the two lists are byte-identical, and an absent or null
\* `to` is the empty byte string in both.
C13_SignedLayout ==
    SignedTx =>
        /\ libLog[1].fn = "keccak256" /\ libLog[2].fn = "ecdsaSign"
        /\ libLog[2].msg32 = hexToBytes(keccak256Bytes(libLog[1].input))
        /\ RlpIsList(libLog[1].input)
        /\ startsWith(out.val.s, Hex0x)
        /\ RlpIsList(hexToBytes(out.val.s))
        /\ Bind(<<PreimageItems, RawItems>>,
                LAMBDA lists :
                    /\ Len(lists[1]) = 9 /\ Len(lists[2]) = 9
                    /\ \A k \in 1..6 : lists[1][k] = lists[2][k]
                    /\ IsQuantity(lists[1][1], op.args.nonce, 0)
                    /\ IsQuantity(lists[1][2], op.args.gasPrice, 1000000000)
                    /\ IsQuantity(lists[1][3], op.args.gasLimit, 21000)
                    /\ IsBytes(lists[1][4], op.args.to)
                    /\ IsQuantity(lists[1][5], op.args.value, 0)
                    /\ IsBytes(lists[1][6], op.args.data)
                    /\ BytesToNat(lists[2][7]) = libLog[2].recid + 2 * BytesToNat(lists[1][7]) + 35
                    /\ lists[1][8] = <<>> /\ lists[1][9] = <<>>
                    /\ lists[2][8] = SubSeq(libLog[2].signature, 1, 32)
                    /\ lists[2][9] = SubSeq(libLog[2].signature, 33, 64))

C13_ContractCreationSigned ==
    /\ SignedTx
    /\ op.args.to = Null
    /\ RawItems[4] = <<>> /\ PreimageItems[4] = <<>>
    /\ Len(RawItems[6]) = 60

\* Two wallets hold the same private key: the same 32 bytes, however the
\* hexadecimal text is written.
SameKey(a, b) == hexToBytes(sliceFrom(a.privateKey, 2)) = hexToBytes(sliceFrom(b.privateKey, 2))

RECURSIVE DecimalBytes(_)
DecimalBytes(n) ==
    IF n < 10 THEN <<48 + n>> ELSE DecimalBytes(n \div 10) \o <<48 + (n % 10)>>

\* 0x19, then "Ethereum Signed Message:" and a line feed.
PersonalPrefix ==
    <<25, 69, 116, 104, 101, 114, 101, 117, 109, 32, 83, 105, 103, 110, 101, 100, 32,
      77, 101, 115, 115, 97, 103, 101, 58, 10>>

MessageBytes(message) == IF message.t = "str" THEN textEncode(message.s) ELSE message.b

\* A signature text: 0x, then r (32 bytes), s (32 bytes) and one byte v, in
\* lower-case hexadecimal.
IsSignatureText(text, signature, v) ==
    /\ Len(text) = 132
    /\ text = Hex0x \o sliceFrom(bytesToHex(signature \o <<v>>), 2)
    /\ Len(signature) = 64

\* C15: sign returns 0x + r (32 bytes) + s (32 bytes) + v (1 byte) with
\* v = recoveryId + 27, so 27 or 28 whatever the chain; what is signed is the
\* hash of the personal-sign prefix, the decimal count of the message's bytes
\* (UTF-8 for a string) and those bytes.
C15_PersonalSign ==
    (op.fn = "sign" /\ out.ok) =>
        /\ libLog[1].input = PersonalPrefix \o DecimalBytes(Len(MessageBytes(op.args)))
                                 \o MessageBytes(op.args)
        /\ libLog[2].msg32 = hexToBytes(keccak256Bytes(libLog[1].input))
        /\ libLog[2].recid \in {0, 1}
        /\ IsSignatureText(out.val.s, libLog[2].signature, libLog[2].recid + 27)
        /\ SubSeq(out.val.s, 131, 132) \in {<<"1", "b">>, <<"1", "c">>}

C15_MultiByteSigned ==
    /\ op.fn = "sign" /\ out.ok
    /\ op.args = Str(<<"a", "U+00e9">>)
    /\ libLog[1].input = PersonalPrefix \o <<51, 97, 195, 169>>
    /\ Len(out.val.s) = 132

TypedSigned == op.fn = "signTypedData" /\ out.ok

DomainHashOf(typed) == hashStruct(Chars("EIP712Domain"), typed[1], EIP712DomainTypes).val

PrimaryHashOf(typed) == hashStruct(primaryTypeOf(typed[2]), typed[3], typed[2]).val

\* C16: the digest signTypedData signs is the hash of exactly 66 bytes: 0x19,
\* 0x01, the 32 bytes of the domain struct hash and the 32 bytes of the
\* primary-type struct hash (bytes, not hexadecimal text); the signature
\* returned has the 65-byte r, s, v = recoveryId + 27 format of sign.
C16_TypedDigest ==
    TypedSigned =>
        /\ Len(libLog[1].input) = 66
        /\ libLog[1].input = <<25, 1>> \o hexToBytes(DomainHashOf(op.args))
                                 \o hexToBytes(PrimaryHashOf(op.args))
        /\ libLog[2].msg32 = hexToBytes(keccak256Bytes(libLog[1].input))
        /\ IsSignatureText(out.val.s, libLog[2].signature, libLog[2].recid + 27)

\* What is hashed instead: the two characters 0x19 0x01 and the 128
\* characters of the two hashes' hexadecimal text, 130 bytes.
C16_HashesHexText ==
    TypedSigned =>
        /\ Len(libLog[1].input) = 130
        /\ libLog[1].input = <<25, 1>> \o textEncode(sliceFrom(DomainHashOf(op.args), 2))
                                 \o textEncode(sliceFrom(PrimaryHashOf(op.args), 2))
        /\ libLog[2].msg32 = hexToBytes(keccak256Bytes(libLog[1].input))
        /\ IsSignatureText(out.val.s, libLog[2].signature, libLog[2].recid + 27)

\* EIP-55: a letter of the 40 lower-case hexadecimal characters is written in
\* upper case when the digit at its place in the hash of those characters
\* (as ASCII text) is 8 or more.
Eip55(addr) ==
    Bind(keccak256Bytes(textEncode(addr)),
         LAMBDA hash :
             Tup([k \in 1..40 |->
                     IF HexValOrNaN(hash[k]) >= 8 /\ HexValOrNaN(addr[k]) >= 10
                     THEN Chars("ABCDEF")[HexValOrNaN(addr[k]) - 9]
                     ELSE addr[k]]))

\* The public key and the address that belong to the private key of a wallet.
KeyedBy(wallet) ==
    Bind(publicKeyCreate(hexToBytes(sliceFrom(wallet.privateKey, 2))),
         LAMBDA pub :
             /\ pub.ok
             /\ wallet.publicKey = bytesToHex(SubSeq(pub.val, 2, 65))
             /\ wallet.address =
                    Hex0x \o Eip55(SubSeq(keccak256Bytes(SubSeq(pub.val, 2, 65)), 25, 64)))

\* C17: a wallet is keyed once: no call of sign, signTypedData,
\* signTransaction or export, successful or failing, changes its privateKey,
\* publicKey or address, and the address is always the EIP-55 casing of the
\* low 20 bytes of the hash of the public key of that private key.
C17_KeyedOnce ==
    /\ [](\A w \in Slots : wallets[w] # NoWallet => KeyedBy(wallets[w]))
    /\ [][\A w \in Slots : wallets[w] # NoWallet => wallets'[w] = wallets[w]]_vars

C17_KeptAfterFailure ==
    /\ op.fn \in {"sign", "signTypedData", "signTransaction"}
    /\ ~out.ok
    /\ wallets[op.w] \in {WalletUpper, WalletLower, WalletOther}
    /\ KeyedBy(wallets[op.w])
    /\ wallets[op.w].address # toLowerCase(wallets[op.w].address)

\* A private key text that is a valid secp256k1 scalar: 64 hexadecimal
\* digits (32 bytes), with or without 0x, spelling a number from 1 to the
\* curve order less one.
ValidKeyText(text) ==
    Bind(IF startsWith(text, Hex0x) THEN sliceFrom(text, 2) ELSE text,
         LAMBDA clean :
             /\ Len(clean) = 64
             /\ \A i \in 1..64 : IsHexChar(clean[i])
             /\ Bind(StripZeros(Tup([i \in 1..64 |-> HexValOrNaN(clean[i])])),
                     LAMBDA mag : mag # <<>> /\ MagCmp(mag, CurveOrder) < 0))

InvalidKeyMessages ==
    {Chars("Private Key is invalid"),
     Chars("Expected private key to be an Uint8Array with length 32")}

\* The same key text with the 0x prefix taken off or put on.
OtherSpelling(text) == IF startsWith(text, Hex0x) THEN sliceFrom(text, 2) ELSE Hex0x \o text

KeySupplied == op.fn = "new" /\ op.args # Undefined

\* C18: constructing a Wallet from a supplied key that is not a valid scalar
\* (zero, not below the curve order, not 32 bytes) fails with an invalid-key
\* error, so no Wallet holds an invalid key; a valid key with or without 0x
\* yields the same wallet.
C18_InvalidKeyRejected ==
    /\ (KeySupplied /\ ~ValidKeyText(op.args.s)) =>
           (~out.ok /\ out.msg \in InvalidKeyMessages /\ wallets[op.w] = NoWallet)
    /\ \A w \in Slots : wallets[w] # NoWallet => ValidKeyText(wallets[w].privateKey)
    /\ (KeySupplied /\ ValidKeyText(op.args.s)) =>
           (out.ok /\ out.val = wallets[op.w] /\ out = walletFromKey(OtherSpelling(op.args.s)))

\* What the constructor does check: a non-empty supplied key is accepted
\* exactly when the bytes hexToBytes reads from it are a valid scalar.
C18_BytesChecked ==
    (KeySupplied /\ op.args.s # <<>>) =>
        /\ out.ok = privateKeyVerify(hexToBytes(op.args.s))
        /\ (~out.ok => out.msg \in InvalidKeyMessages /\ wallets[op.w] = NoWallet)

\* The constructor has returned a wallet with a valid key.
Generated ==
    /\ keygen.pc = "idle"
    /\ op.fn = "new"
    /\ wallets[op.w] # NoWallet
    /\ out = Ok(wallets[op.w])
    /\ ValidKeyText(wallets[op.w].privateKey)

\* C19: key generation draws a fresh candidate on every iteration until one
\* is valid, so a construction without key that has entered the loop returns
\* with a valid key, with the global crypto and on the Node fallback alike.
C19_GenerationTerminates ==
    (keygen.pc = "loop") ~> Generated

\* With the global crypto present the loop does end.
C19_TerminatesWithCrypto ==
    (keygen.pc = "loop" /\ keygen.crypto)
        ~> Generated

\* The encoding of one supplied argument: a word, or length word and content.
ExpectedArg(type, value) ==
    IF type = TypeString THEN ExpectedDynamic(Utf8HexOf(value.s, Len(value.s)))
    ELSE IF type = TypeBytes THEN ExpectedDynamic(SubSeq(value.s, 3, Len(value.s)))
    ELSE ExpectedWord(type, value)

\* The types for which a missing argument is encoded: bool as false, string as
\* the empty string, both one word of zeros.
SilentTypes == {Chars("bool"), TypeString}

RECURSIVE ExpectedArgs(_, _, _)
ExpectedArgs(inputs, args, n) ==
    IF n = 0 THEN <<>>
    ELSE ExpectedArgs(inputs, args, n - 1)
             \o (IF n <= Len(args) THEN ExpectedArg(inputs[n].type, args[n])
                 ELSE Repeat("0", 64))

MissingFails(inputs, args) ==
    \E k \in (Len(args) + 1)..Len(inputs) : inputs[k].type \notin SilentTypes

\* C20 as stated: encodeArguments called with more or with fewer arguments
\* than declared raises no error and returns calldata, whatever the declared
\* parameter types.
C20_SilentOnMismatch ==
    (op.fn = "encodeArguments" /\ Len(op.args) # Len(op.inputs)) => out.ok

\* C20: encodeArguments checks no argument count.  Arguments past the
\* declared parameters are ignored; a missing argument is encoded as
\* undefined, which is silent for bool (false) and string (empty) and a
\* TypeError for address, uintN, intN, bytes32 and bytes.
C20_NoArityCheck ==
    op.fn = "encodeArguments" =>
        IF MissingFails(op.inputs, op.args)
        THEN ~out.ok /\ out.err = "TypeError"
        ELSE out.ok /\ out.val = ExpectedArgs(op.inputs, op.args, Len(op.inputs))

C20_MissingBoolSilent ==
    /\ op.fn = "encodeArguments"
    /\ Len(op.inputs) = 2
    /\ op.inputs[1].type = Chars("uint256")
    /\ op.inputs[2].type = Chars("bool")
    /\ Len(op.args) = 1
    /\ out.ok
    /\ Len(out.val) = 128
    /\ SubSeq(out.val, 65, 128) = Repeat("0", 64)

\* Task t starts a call of getter fn in this step.
GetterStarts(t, fn) ==
    /\ token.calls[t] = Idle
    /\ token'.calls[t] # Idle
    /\ token'.calls[t].fn = fn

\* The call started by t is answered from the cache: no request is made and
\* the call has returned what the field held.
ServedFromCache(t, fn) ==
    /\ rpcLog' = rpcLog
    /\ token'.calls[t] = Settled(fn, <<>>, Ok(token.cache[fn]))
    /\ token.cache[fn] \in token.fetched[fn]

FetchFails(t) ==
    /\ token.calls[t].pc = "await"
    /\ token'.calls[t].pc = "done"
    /\ ~token'.calls[t].result.ok

\* C21: the cached name, symbol and decimals are set by the first successful
\* fetch and never invalidated: once a fetch of a field has succeeded, every
\* later call of its getter returns the cached value and makes no RPC call,
\* whatever value was fetched; a failed fetch leaves the cache as it was; and
\* with concurrent first calls the cache always holds a fetched value.
C21_CachedAfterFetch ==
    /\ [](\A f \in Getters : token.cache[f] \in token.fetched[f] \cup {Undefined})
    /\ [][\A t \in Tasks : \A fn \in Getters :
             (GetterStarts(t, fn) /\ token.fetched[fn] # {}) => ServedFromCache(t, fn)]_vars
    /\ [][\A t \in Tasks : FetchFails(t) => token'.cache = token.cache]_vars

\* What the code does: only a truthy cached value ('' and 0 are not) is
\* served without a fetch.
C21_CachedWhenTruthy ==
    /\ [](\A f \in Getters : token.cache[f] \in token.fetched[f] \cup {Undefined})
    /\ [][\A t \in Tasks : \A fn \in Getters :
             GetterStarts(t, fn) =>
                 IF truthy(token.cache[fn]) THEN ServedFromCache(t, fn)
                 ELSE rpcLog' # rpcLog /\ token'.calls[t].pc = "await"]_vars
    /\ [][\A t \in Tasks : FetchFails(t) => token'.cache = token.cache]_vars

\* The digits of a * 10^d for a decimal text a: the whole part, then the first
\* d fraction digits, zeros where there are none.
ScaledDigits(a, d) ==
    LET dot == IF \E i \in 1..Len(a) : a[i] = "."
               THEN CHOOSE i \in 1..Len(a) : a[i] = "." /\ \A j \in 1..(i - 1) : a[j] # "."
               ELSE Len(a) + 1
    IN  SubSeq(a, 1, dot - 1)
            \o Tup([k \in 1..d |-> IF dot + k <= Len(a) THEN a[dot + k] ELSE "0"])

ScaledAmount(amount, d) ==
    IF amount.t = "big" THEN amount
    ELSE Big(FALSE, StripZeros(DecToMag(ScaledDigits(amount.s, d))))

\* A writer has parsed its amount and sent the call.
WriterSent ==
    /\ token # NoToken
    /\ op.fn \in Writers
    /\ op.step = "send"
    /\ op.args[Len(op.args)] # Str(Chars("max"))

SentData == signLog[Len(signLog)].data

WriterSelector ==
    functionSelector(Fn(op.fn,
                        IF op.fn = "transferFrom"
                        THEN <<Param("from", "address", FALSE), Param("to", "address", FALSE),
                               Param("amount", "uint256", FALSE)>>
                        ELSE <<Param("to", "address", FALSE), Param("amount", "uint256", FALSE)>>,
                        <<>>))

RECURSIVE AddressWords(_, _)
AddressWords(args, n) ==
    IF n = 0 THEN <<>>
    ELSE AddressWords(args, n - 1) \o LeftPadded(SubSeq(args[n].s, 3, 42))

\* C26: transfer, approve and transferFrom given a decimal-string amount a
\* encode as the uint256 argument a * 10^d, d being what decimals() returned
\* (fraction digits beyond d places truncated), for every d >= 0, d = 0
\* included; a bigint amount is passed unscaled.  With d = 18, to = 0x00..01
\* and amount 100 the calldata is 0xa9059cbb, the padded address word and the
\* padded word of 100 * 10^18.
C26_AmountScaled ==
    WriterSent =>
        /\ out.ok
        /\ SentData = WriterSelector \o AddressWords(op.args, Len(op.args) - 1)
                          \o LeftPadded(HexOfNat(ScaledAmount(op.args[Len(op.args)],
                                                              op.decimals.n)))
        /\ (op.fn = "transfer" /\ op.args = <<Str(AddrOne), Str(Chars("100"))>>
               /\ op.decimals = Num(18))
             => SentData = Chars("0xa9059cbb") \o Repeat("0", 63) \o <<"1">>
                               \o Repeat("0", 47) \o Chars("56bc75e2d63100000")

\* What the code does: the amount is scaled by d when d > 0.
C26_ScaledWhenPositive == (WriterSent /\ op.decimals.n > 0) => C26_AmountScaled

\* The number a byte string spells and the number a gas price given as
\* hexadecimal text or bigint is, both as hexadecimal digits without leading
\* zeros.
ItemMag(item) ==
    StripZeros(Flatten(Tup([i \in 1..Len(item) |-> <<item[i] \div 16, item[i] % 16>>])))

PriceMag(v) ==
    IF v.t = "big" THEN v.mag
    ELSE StripZeros(Tup([i \in 1..(Len(v.s) - 2) |-> HexValOrNaN(v.s[i + 2])]))

\* The sendTransaction calls that have signed.
HasSigned(t) ==
    /\ client # NoClient
    /\ client.calls[t].pc # "idle"
    /\ client.calls[t].fn = "sendTransaction"
    /\ client.calls[t].local.signedTx # <<>>

\* The call that has just signed and broadcast (its locals stay as they are
\* from then on).
JustSigned(t) ==
    /\ client # NoClient
    /\ op.fn = "sendTransaction"
    /\ op.t = t
    /\ op.step \in {"nonce", "gasPrice"}
    /\ client.calls[t].local.signedTx # <<>>

AskedGasPrice(call) == \E k \in 1..Len(call.trace) : call.trace[k].method = "eth_gasPrice"

SignedPrice(call) == ItemMag(RlpItems(hexToBytes(call.local.signedTx))[2])

\* The gas price that must have been signed when the caller's counts as
\* supplied: the caller's, else the configured one, both without a query;
\* else the node's answer, and the default only when the query failed.
PricePrecedence(call, supplied) ==
    IF supplied
    THEN ~AskedGasPrice(call) /\ SignedPrice(call) = PriceMag(call.local.request.gasPrice)
    ELSE IF client.gasPrice # Null
    THEN ~AskedGasPrice(call) /\ SignedPrice(call) = PriceMag(client.gasPrice)
    ELSE /\ AskedGasPrice(call)
         /\ SignedPrice(call) = PriceMag(Str(IF call.local.gasReply.ok
                                             THEN call.local.gasReply.val
                                             ELSE DefaultGasPrice))

\* C22: a transaction sent through the client is signed with the default gas
\* price 0x3B9ACA00 only when neither the caller nor the configuration gave a
\* gas price and the node's query failed; a successful query's result is the
\* price signed; a caller's or configured price takes precedence and no query
\* is made.
C22_GasPricePrecedence ==
    \A t \in Tasks :
        JustSigned(t) =>
            PricePrecedence(client.calls[t], client.calls[t].local.request.gasPrice # Undefined)

\* What the code does: the caller's gas price counts when it is truthy (0n
\* and '' are not).
C22_TruthyPricePrecedence ==
    \A t \in Tasks :
        JustSigned(t) =>
            PricePrecedence(client.calls[t], truthy(client.calls[t].local.request.gasPrice))


(***************************************************************************)
(* C23, C27: the sendTransaction pipeline.                                 *)
(***************************************************************************)
\* The place of a trace entry in the pipeline.
StageOf(entry) ==
    CASE entry.method = "eth_getTransactionCount" -> 1
      [] entry.method = "eth_gasPrice" -> 2
      [] entry.method = "signTransaction" -> 3
      [] entry.method = "eth_sendRawTransaction" -> 4
      [] entry.method = "eth_getTransactionReceipt" -> 5
      [] OTHER -> 0

\* The steps that may follow one another: the gas price query is optional,
\* no step before the wait is repeated, the wait polls again and again.
StageJumps == {<<1, 2>>, <<1, 3>>, <<2, 3>>, <<3, 4>>, <<4, 5>>, <<5, 5>>}

InOrder(trace) ==
    /\ Len(trace) > 0
    /\ StageOf(trace[1]) = 1
    /\ \A k \in 1..(Len(trace) - 1) : <<StageOf(trace[k]), StageOf(trace[k + 1])>> \in StageJumps

\* The transaction handed to the wallet: the client's chain id, the nonce
\* the node answered, a gas price.
SignedAsFilled(call) ==
    \A k \in 1..Len(call.trace) :
        call.trace[k].method = "signTransaction" =>
            /\ call.trace[k].arg.chainId = Num(client.chainId)
            /\ call.trace[k].arg.nonce \in {Num(n) : n \in 5..(5 + Cardinality(Tasks))}
            /\ truthy(call.trace[k].arg.gasPrice)

SendCalls == {t \in Tasks : client.calls[t].pc # "idle" /\ client.calls[t].fn = "sendTransaction"}

\* The step of a sendTransaction call whose RPC request has just failed.
StepFailed == client # NoClient /\ op.fn = "sendTransaction" /\ ~op.reply.ok

\* The failed step's error is what the call threw, and the request that
\* failed is the last thing the call did.
EndedWith(call, reply) ==
    /\ call.pc = "done"
    /\ call.result = reply
    /\ out = reply
    /\ call.trace[Len(call.trace)].method \in
           {"eth_getTransactionCount", "eth_sendRawTransaction", "eth_getTransactionReceipt"}

\* C23 as stated: sendTransaction runs nonce, chain id, gas price, sign,
\* broadcast, wait in this order without repeating a step, and the failure of
\* any RPC step ends the call with that error, no later step being run.
C23_AnyFailureEndsCall ==
    /\ \A t \in SendCalls : InOrder(client.calls[t].trace) /\ SignedAsFilled(client.calls[t])
    /\ StepFailed => EndedWith(client.calls[op.t], op.reply)

\* C23 (amended): the order is as stated, and the failure of the nonce
\* fetch, of the broadcast or of a receipt poll ends the call with that error
\* and nothing later runs; the failure of the gas price query is swallowed:
\* the default price is filled in, and the transaction is signed and
\* broadcast.
C23_PipelineOrder ==
    /\ \A t \in SendCalls : InOrder(client.calls[t].trace) /\ SignedAsFilled(client.calls[t])
    /\ StepFailed =>
           IF op.step = "gasPrice"
           THEN /\ client.calls[op.t].pc = "broadcast"
                /\ client.calls[op.t].local.tx.gasPrice = Str(DefaultGasPrice)
                /\ StageOf(client.calls[op.t].trace[Len(client.calls[op.t].trace)]) = 4
           ELSE EndedWith(client.calls[op.t], op.reply)

\* A call that was completed with a receipt although its gas price query had
\* failed, the caller's chain id and nonce having been overridden.
C23_SwallowedGasFailure ==
    /\ client # NoClient
    /\ \E t \in SendCalls :
           /\ client.calls[t].pc = "done"
           /\ client.calls[t].result.ok
           /\ client.calls[t].local.gasReply = RpcError

\* A call with the caller's own chain id that failed at the broadcast.
C23_BroadcastFailed ==
    /\ StepFailed
    /\ op.step = "broadcast"
    /\ client.calls[op.t].local.request.chainId = Num(1)

\* The nonces of the transactions a call has broadcast.
BroadcastNonces(call) ==
    IF \E k \in 1..Len(call.trace) : call.trace[k].method = "eth_sendRawTransaction"
    THEN {call.trace[k].arg.nonce : k \in {j \in 1..Len(call.trace) :
                                                call.trace[j].method = "signTransaction"}}
    ELSE {}

\* C27: the transactions broadcast by two sendTransaction calls of the same
\* wallet carry distinct nonces.
C27_DistinctNonces ==
    client # NoClient =>
        \A t, u \in SendCalls :
            t # u => BroadcastNonces(client.calls[t]) \cap BroadcastNonces(client.calls[u]) = {}


(***************************************************************************)
(* C24: waitForTransaction.                                                *)
(***************************************************************************)
WaitCalls ==
    {t \in Tasks : client.calls[t].pc # "idle" /\ client.calls[t].fn = "waitForTransaction"}

\* The block a receipt was mined in, given as a number or as a hex string.
ReceiptBlock(receipt) ==
    IF receipt.blockNumber.t = "num" THEN receipt.blockNumber.n
    ELSE parseInt16(receipt.blockNumber.s)

\* The message of the timeout error of a call.
TimeoutText(local) ==
    Chars("Transaction ") \o local.txHash \o Chars(" not confirmed within ")
        \o (IF local.timeout = 0 THEN <<"0">> ELSE Chars("2000")) \o Chars("ms")

\* What a finished call returned is the receipt of its last poll, with a
\* block number, and confirmed by the block number read after it.
ReturnedReceipt(call) ==
    /\ call.result.val = call.local.seen
    /\ call.result.val.t = "object"
    /\ call.result.val.blockNumber \notin {Null, Undefined, Num(0), Str(<<>>)}
    /\ call.local.confirmations > 1 =>
           call.local.current - ReceiptBlock(call.result.val) + 1 >= call.local.confirmations

\* What a finished call threw is the timeout error naming the transaction,
\* thrown when the loop condition was read, or the error of a request.
ThrownError(call) ==
    \/ /\ call.result = Throw("Error", TimeoutText(call.local))
       /\ call.local.txHash = TxHash
       /\ call.local.polls * 1000 >= call.local.timeout \/ call.local.polls > 0
    \/ /\ call.result = RpcError
       /\ call.result # Throw("Error", TimeoutText(call.local))

\* C24: waitForTransaction returns only a receipt that carries a block number
\* and, when confirmations > 1, has currentBlock - receiptBlock + 1 >=
\* confirmations; it polls only while the deadline has not passed at the loop
\* condition and then throws the timeout error naming the transaction; a
\* reverted transaction's receipt is returned, so that the timeout is told
\* apart from a revert.
C24_WaitOutcome ==
    client # NoClient =>
        \A t \in WaitCalls :
            LET call == client.calls[t]
            IN  /\ call.pc # "done" => call.local.polls * 1000 < call.local.timeout
                /\ (call.pc = "done" /\ call.result.ok) => ReturnedReceipt(call)
                /\ (call.pc = "done" /\ ~call.result.ok) => ThrownError(call)
                /\ (call.pc = "done" /\ op.t = t /\ op.step = "wake") =>
                       call.result = Throw("Error", TimeoutText(call.local))

\* A receipt returned for three confirmations, after a poll that had found
\* too few.
C24_ThreeConfirmations ==
    /\ client # NoClient
    /\ \E t \in WaitCalls :
           /\ client.calls[t].pc = "done"
           /\ client.calls[t].result.ok
           /\ client.calls[t].local.confirmations = 3
           /\ client.calls[t].local.polls = 1
           /\ client.calls[t].local.current = 18

\* A reverted transaction's receipt is returned by one call while the other
\* call timed out.
C24_RevertAndTimeout ==
    /\ client # NoClient
    /\ \E t, u \in WaitCalls :
           /\ client.calls[t].pc = "done"
           /\ client.calls[t].result.ok
           /\ client.calls[t].result.val.status = Str(Chars("0x0"))
           /\ client.calls[u].pc = "done"
           /\ ~client.calls[u].result.ok
           /\ client.calls[u].result # RpcError


(***************************************************************************)
(* C25: toRlpNumber.                                                       *)
(***************************************************************************)
\* The shortest big-endian bytes of n: none for 0, no leading zero byte.
RECURSIVE MinimalBytes(_)
MinimalBytes(n) == IF n = 0 THEN <<>> ELSE MinimalBytes(n \div 256) \o <<n % 256>>

IsMinimal(n) == out = Ok(Bytes(MinimalBytes(n)))

\* C25 as stated: toRlpNumber maps 0 in every form to the empty bytes and
\* n > 0 to its shortest big-endian bytes, and so the nonce, gasPrice,
\* gasLimit and value of a request serialize to the bytes of their value
\* whatever form the value was supplied in.
C25_EqualValuesSerializeAlike ==
    op.fn \in {"toRlpNumber", "serializeField"} => IsMinimal(op.n)

\* toRlpNumber itself is as stated, and so is each field for a value that
\* is not falsy; a falsy nonce or value (0, 0n) is replaced by 0.
C25_MinimalUnlessDefaulted ==
    /\ op.fn = "toRlpNumber" => IsMinimal(op.n)
    /\ op.fn = "serializeField" =>
           \/ IsMinimal(op.n)
           \/ /\ op.n = 0
              /\ op.form \in {"number", "bigint"}
              /\ op.field \in {"gasPrice", "gasLimit"}
              /\ IsMinimal(IF op.field = "gasLimit" THEN 21000 ELSE 1000000000)


(***************************************************************************)
(* C28, C29: WSClient.                                                     *)
(***************************************************************************)
SendMade(i) == socket # NoSocket /\ Len(socket.promises) >= i

SendSettled(i) == SendMade(i) /\ socket.promises[i].state # "pending"

\* No promise is resolved or rejected twice, a settled one has left the
\* map of pending requests, and a promise rejected at once was given no id.
SettledAtMostOnce ==
    socket # NoSocket =>
        \A i \in 1..Len(socket.promises) :
            LET p == socket.promises[i]
            IN  /\ p.calls = (IF p.state = "pending" THEN 0 ELSE 1)
                /\ p.state # "pending" => p.id \notin socket.pendingRequests
                /\ p.id = 0 <=> p.reason = "WebSocket not connected"
                /\ p.reason \in {"", "RPC Error", "Request timeout", "WebSocket not connected"}

\* C28: every promise made by send is settled in the end and exactly once,
\* by the response with its id, at once when the socket is not open, or by
\* the timeout, whatever disconnect(), closes and reconnections come between.
C28_EverySendSettles ==
    /\ []SettledAtMostOnce
    /\ \A i \in 1..MaxRequests : SendMade(i) ~> SendSettled(i)

\* The promises of a client that is never disconnected by its user are
\* settled in the end; a pending request is in the map with its timer armed
\* unless disconnect() has emptied the map.
C28_SettlesUnlessDisconnected ==
    /\ []SettledAtMostOnce
    /\ [](socket # NoSocket =>
            \A i \in 1..Len(socket.promises) :
                socket.promises[i].state = "pending" =>
                    \/ socket.stopped
                    \/ socket.promises[i].id \in socket.pendingRequests \cap socket.timeouts)
    /\ \A i \in 1..MaxRequests : SendMade(i) ~> (SendSettled(i) \/ socket.stopped)

\* The delay of the k-th consecutive attempt.
DelayOf(k) ==
    CASE k = 1 -> 1000
      [] k = 2 -> 2000
      [] k = 3 -> 4000
      [] k = 4 -> 8000
      [] k = 5 -> 16000

\* A reconnection is scheduled in this step.
Schedules == Len(socket'.timers) > Len(socket.timers)

\* C29: reconnectAttempts never exceeds 5; the k-th consecutive attempt is
\* scheduled with the delay 1000 * 2^(k-1); the counter goes back to 0 only
\* as a connection opens; once disconnect() has been called no close
\* schedules a reconnection.
C29_BoundedAndStoppable ==
    /\ [](socket # NoSocket => socket.reconnectAttempts \in 0..5)
    /\ [][/\ Schedules =>
                /\ ~socket.stopped
                /\ op'.fn = "onclose"
                /\ socket'.reconnectAttempts = socket.reconnectAttempts + 1
                /\ socket'.timers = socket.timers \o <<DelayOf(socket'.reconnectAttempts)>>
          /\ socket'.reconnectAttempts < socket.reconnectAttempts =>
                /\ socket'.reconnectAttempts = 0
                /\ op'.fn = "onopen"
          /\ socket.stopped => socket'.stopped /\ socket'.timers \in {socket.timers} \cup
                   {SubSeq(socket.timers, 1, i - 1) \o SubSeq(socket.timers, i + 1, Len(socket.timers)) :
                        i \in 1..Len(socket.timers)}]_vars

\* The fifth attempt in a row has failed and nothing more is scheduled.
C29_AttemptsExhausted ==
    /\ socket # NoSocket
    /\ socket.reconnectAttempts = 5
    /\ socket.timers = <<>>
    /\ op.fn = "onclose"
    /\ ~socket.stopped
    /\ \A s \in SocketSlots : socket.readyState[s] \in {"none", "closed"}

\* The close caused by disconnect() has been handled without scheduling.
C29_ClosedAfterDisconnect ==
    /\ socket # NoSocket
    /\ socket.stopped
    /\ op.fn = "onclose"
    /\ socket.timers = <<>>
    /\ socket.reconnectAttempts = 0


(***************************************************************************)
(* C30: contract.methods.                                                  *)
(***************************************************************************)
MethodUsed == op.fn \in {"methods.call", "methods.send", "methods.estimateGas"}

\* The calldata a method handed to the RPC layer: in the eth_call or
\* eth_estimateGas request, or in the transaction given to the client.
CalldataSent ==
    {rpcLog[k].arg.data : k \in {j \in 1..Len(rpcLog) :
                                     rpcLog[j].method \in {"eth_call", "eth_estimateGas"}}}
        \cup {signLog[k].data : k \in 1..Len(signLog)}

\* C30: what methods[name].call, .send and .estimateGas hand to the RPC layer
\* is the calldata methods[name].encodeABI returns for the same arguments,
\* also when the ABI declares the name more than once.
C30_SameCalldata ==
    MethodUsed => (out.ok => CalldataSent \subseteq {out.val}) /\ (~out.ok => CalldataSent = {})

\* The same for the names that the ABI declares once.
C30_SameCalldataDeclaredOnce ==
    (MethodUsed /\ Cardinality({i \in 1..Len(abi) : abi[i].type = "function"
                                                       /\ abi[i].name = op.name}) = 1)
        => (out.ok => CalldataSent \subseteq {out.val}) /\ (~out.ok => CalldataSent = {})

=============================================================================
